---- MODULE Spec2Model ----
(***************************************************************************)
(* quizmeonit.ai: the three request handlers (get-random-topic,            *)
(* generate-quiz, chat-explanation), the JSON text they read and the       *)
(* fence stripping they apply to the model's reply.                        *)
(*                                                                         *)
(* Texts (request bodies, model replies, JS strings) are sequences of      *)
(* one-character strings.  The alphabet of the texts the model draws is    *)
(* letters, digits, space, newline, the back-tick and the JSON             *)
(* punctuation; there is no sign, fraction or exponent, and of the escape  *)
(* sequences of a JSON string the \u and \b forms are left out.            *)
(*                                                                         *)
(* The two client components (the quiz page Home and ExplanationChat) are  *)
(* modelled after the handlers, each with its own specification.           *)
(***************************************************************************)
EXTENDS Integers, Sequences, FiniteSets, TLC

(***************************************************************************)
(* JavaScript values.  Each kind of value has its own field name, so that  *)
(* two values of different kinds are records over different domains.       *)
(***************************************************************************)
JUndefined == [t |-> "undefined"]
JNull == [t |-> "null"]
JBool(b) == [t |-> "bool", b |-> b]
JNum(n) == [t |-> "num", n |-> n]
JStr(s) == [t |-> "str", s |-> s]
JArr(a) == [t |-> "arr", a |-> a]
JObj(m) == [t |-> "obj", m |-> m]

\* ToBoolean: the values for which !v is false.
Truthy(v) ==
    CASE v.t = "undefined" -> FALSE
      [] v.t = "null" -> FALSE
      [] v.t = "bool" -> v.b
      [] v.t = "num" -> v.n # 0
      [] v.t = "str" -> Len(v.s) > 0
      [] OTHER -> TRUE

\* v is null or undefined: reading a property of it throws a TypeError.
Nullish(v) == v.t \in {"undefined", "null"}

\* The last index of key k among the members of an object, 0 when absent.
RECURSIVE KeyIndex(_, _, _)
KeyIndex(m, k, i) ==
    IF i = 0 THEN 0
    ELSE IF m[i].k = k THEN i
    ELSE KeyIndex(m, k, i - 1)

\* v.k for a value v that is not null or undefined; only objects have own
\* properties with the handlers' field names.
GetProp(v, k) ==
    IF v.t = "obj" /\ KeyIndex(v.m, k, Len(v.m)) # 0
    THEN v.m[KeyIndex(v.m, k, Len(v.m))].v
    ELSE JUndefined

\* Adding a member to an object being parsed: a repeated key keeps its
\* place and takes the later value.
PutMember(m, k, v) ==
    IF KeyIndex(m, k, Len(m)) = 0
    THEN Append(m, [k |-> k, v |-> v])
    ELSE [m EXCEPT ![KeyIndex(m, k, Len(m))] = [k |-> k, v |-> v]]

(***************************************************************************)
(* JSON.parse, by recursive descent over the characters of the text.  A    *)
(* parse gives [ok, v, i]: whether a value was read, the value, and the    *)
(* position after it.                                                      *)
(***************************************************************************)
Digits == <<"0", "1", "2", "3", "4", "5", "6", "7", "8", "9">>
IsDigit(c) == \E d \in 1..10 : Digits[d] = c
DigitValue(c) == (CHOOSE d \in 1..10 : Digits[d] = c) - 1

\* JSON white space.
IsJSONWhitespace(c) == c \in {" ", "\n", "\t", "\r"}

ParseFail == [ok |-> FALSE, v |-> JUndefined, i |-> 0]
Parsed(v, i) == [ok |-> TRUE, v |-> v, i |-> i]

At(s, i) == IF i >= 1 /\ i <= Len(s) THEN s[i] ELSE "EOF"

RECURSIVE SkipWhitespace(_, _)
SkipWhitespace(s, i) ==
    IF IsJSONWhitespace(At(s, i)) THEN SkipWhitespace(s, i + 1) ELSE i

\* The literal w starts at position i of s.
HasLiteral(s, i, w) ==
    /\ i + Len(w) - 1 <= Len(s)
    /\ \A j \in 1..Len(w) : s[i + j - 1] = w[j]

\* Digits from position i on, as [n, i].
RECURSIVE ParseDigits(_, _, _)
ParseDigits(s, i, n) ==
    IF IsDigit(At(s, i)) THEN ParseDigits(s, i + 1, 10 * n + DigitValue(s[i]))
    ELSE [n |-> n, i |-> i]

\* A number: 0, or a non-zero digit followed by digits.
ParseNumber(s, i) ==
    IF s[i] = "0" THEN Parsed(JNum(0), i + 1)
    ELSE LET r == ParseDigits(s, i, 0) IN Parsed(JNum(r.n), r.i)

\* The character the escape sequence backslash-c stands for; "none" when
\* there is no such escape sequence.
Unescape(c) ==
    CASE c = "\"" -> "\""
      [] c = "\\" -> "\\"
      [] c = "/" -> "/"
      [] c = "n" -> "\n"
      [] c = "t" -> "\t"
      [] c = "r" -> "\r"
      [] c = "f" -> "\f"
      [] OTHER -> "none"

\* The first position from i on that holds a quote, a backslash or a
\* control character; the position after the text when there is none.
StringStop(s, i) ==
    IF \E j \in i..Len(s) : s[j] \in {"\"", "\\", "\n", "\t", "\r", "\f"}
    THEN CHOOSE j \in i..Len(s) :
             /\ s[j] \in {"\"", "\\", "\n", "\t", "\r", "\f"}
             /\ \A k \in i..(j - 1) : s[k] \notin {"\"", "\\", "\n", "\t", "\r", "\f"}
    ELSE Len(s) + 1

\* The characters of a string from position i (after the opening quote) up
\* to the closing quote; a control character or the end of the text ends
\* the parse, and a backslash starts an escape sequence.
RECURSIVE ParseChars(_, _, _)

\* ParseChars with j the first position from i on that is no plain
\* character.
ParseCharsTo(s, i, j, acc) ==
    IF At(s, j) = "\""
    THEN Parsed(JStr(acc \o SubSeq(s, i, j - 1)), j + 1)
    ELSE IF At(s, j) = "\\" /\ Unescape(At(s, j + 1)) # "none"
    THEN ParseChars(s, j + 2, Append(acc \o SubSeq(s, i, j - 1), Unescape(At(s, j + 1))))
    ELSE ParseFail

ParseChars(s, i, acc) == ParseCharsTo(s, i, StringStop(s, i), acc)

RECURSIVE ParseValue(_, _)
RECURSIVE ParseElements(_, _, _)
RECURSIVE ParseMembers(_, _, _)

\* After "[" and at least no element yet: a value, then "," or "]".
ParseElements(s, i, acc) ==
    LET r == ParseValue(s, i) IN
    IF ~r.ok THEN ParseFail
    ELSE LET j == SkipWhitespace(s, r.i) IN
         IF At(s, j) = "," THEN ParseElements(s, j + 1, Append(acc, r.v))
         ELSE IF At(s, j) = "]" THEN Parsed(JArr(Append(acc, r.v)), j + 1)
         ELSE ParseFail

\* A member "key": value, then "," or "}".
ParseMembers(s, i, acc) ==
    LET j == SkipWhitespace(s, i) IN
    IF At(s, j) # "\"" THEN ParseFail
    ELSE LET k == ParseChars(s, j + 1, <<>>) IN
         IF ~k.ok THEN ParseFail
         ELSE LET c == SkipWhitespace(s, k.i) IN
              IF At(s, c) # ":" THEN ParseFail
              ELSE LET r == ParseValue(s, c + 1) IN
                   IF ~r.ok THEN ParseFail
                   ELSE LET e == SkipWhitespace(s, r.i)
                            m == PutMember(acc, k.v.s, r.v)
                        IN IF At(s, e) = "," THEN ParseMembers(s, e + 1, m)
                           ELSE IF At(s, e) = "}" THEN Parsed(JObj(m), e + 1)
                           ELSE ParseFail

ParseValue(s, i0) ==
    LET i == SkipWhitespace(s, i0)
        c == At(s, i)
    IN CASE c = "n" -> IF HasLiteral(s, i, <<"n", "u", "l", "l">>)
                       THEN Parsed(JNull, i + 4) ELSE ParseFail
         [] c = "t" -> IF HasLiteral(s, i, <<"t", "r", "u", "e">>)
                       THEN Parsed(JBool(TRUE), i + 4) ELSE ParseFail
         [] c = "f" -> IF HasLiteral(s, i, <<"f", "a", "l", "s", "e">>)
                       THEN Parsed(JBool(FALSE), i + 5) ELSE ParseFail
         [] c = "\"" -> ParseChars(s, i + 1, <<>>)
         [] c = "[" -> IF At(s, SkipWhitespace(s, i + 1)) = "]"
                       THEN Parsed(JArr(<<>>), SkipWhitespace(s, i + 1) + 1)
                       ELSE ParseElements(s, i + 1, <<>>)
         [] c = "{" -> IF At(s, SkipWhitespace(s, i + 1)) = "}"
                       THEN Parsed(JObj(<<>>), SkipWhitespace(s, i + 1) + 1)
                       ELSE ParseMembers(s, i + 1, <<>>)
         [] IsDigit(c) -> ParseNumber(s, i)
         [] OTHER -> ParseFail

\* JSON.parse(s): one value with nothing but white space around it, or a
\* SyntaxError (ok = FALSE).
JSONParse(s) ==
    LET r == ParseValue(s, 1) IN
    IF r.ok /\ SkipWhitespace(s, r.i) = Len(s) + 1
    THEN [ok |-> TRUE, v |-> r.v]
    ELSE [ok |-> FALSE, v |-> JUndefined]

(***************************************************************************)
(* The strings of the handlers, character by character.                    *)
(***************************************************************************)
\* The needle of the catch blocks: "API key not valid".
ApiKeyNotValid ==
    <<"A", "P", "I", " ", "k", "e", "y", " ", "n", "o", "t", " ", "v", "a", "l", "i", "d">>
\* The one supported question type.
MultipleChoice == <<"M", "u", "l", "t", "i", "p", "l", "e", " ", "C", "h", "o", "i", "c", "e">>
kTopic == <<"t", "o", "p", "i", "c">>
kDifficulty == <<"d", "i", "f", "f", "i", "c", "u", "l", "t", "y">>
kQuestionType == <<"q", "u", "e", "s", "t", "i", "o", "n", "T", "y", "p", "e">>
kQuestion == <<"q", "u", "e", "s", "t", "i", "o", "n">>
kUserMessage == <<"u", "s", "e", "r", "M", "e", "s", "s", "a", "g", "e">>
kChatHistory == <<"c", "h", "a", "t", "H", "i", "s", "t", "o", "r", "y">>
kQuestionText == <<"q", "u", "e", "s", "t", "i", "o", "n", "T", "e", "x", "t">>
kOptions == <<"o", "p", "t", "i", "o", "n", "s">>
kCorrectAnswer == <<"c", "o", "r", "r", "e", "c", "t", "A", "n", "s", "w", "e", "r">>
kExplanation == <<"e", "x", "p", "l", "a", "n", "a", "t", "i", "o", "n">>
kSender == <<"s", "e", "n", "d", "e", "r">>
kText == <<"t", "e", "x", "t">>
MsgInvalidKey ==
    <<"A", "P", "I", " ", "k", "e", "y", " ", "n", "o", "t", " ", "v", "a", "l", "i", "d",
    ".", " ", "P", "l", "e", "a", "s", "e", " ", "p", "a", "s", "s", " ", "a", " ", "v", "a",
    "l", "i", "d", " ", "A", "P", "I", " ", "k", "e", "y", ".">>
MsgLowerKey ==
    <<"a", "p", "i", " ", "k", "e", "y", " ", "n", "o", "t", " ", "v", "a", "l", "i", "d">>
MsgFetchFailed == <<"f", "e", "t", "c", "h", " ", "f", "a", "i", "l", "e", "d">>
MsgBlocked ==
    <<"b", "l", "o", "c", "k", "e", "d", " ", "d", "u", "e", " ", "t", "o", " ", "S", "A",
    "F", "E", "T", "Y">>
MsgNullProperty ==
    <<"C", "a", "n", "n", "o", "t", " ", "r", "e", "a", "d", " ", "p", "r", "o", "p", "e",
    "r", "t", "i", "e", "s", " ", "o", "f", " ", "n", "u", "l", "l">>
MsgInOperator ==
    <<"C", "a", "n", "n", "o", "t", " ", "u", "s", "e", " ", "i", "n", " ", "o", "p", "e",
    "r", "a", "t", "o", "r">>
MsgUnexpectedToken ==
    <<"U", "n", "e", "x", "p", "e", "c", "t", "e", "d", " ", "t", "o", "k", "e", "n">>
AncientRome == <<"a", "n", "c", "i", "e", "n", "t", " ", "r", "o", "m", "e">>
NotJsonAtAll == <<"n", "o", "t", " ", "j", "s", "o", "n", " ", "a", "t", " ", "a", "l", "l">>

\* String.prototype.includes: needle occurs in s.
Includes(s, needle) ==
    \E i \in 1..(Len(s) - Len(needle) + 1) : SubSeq(s, i, i + Len(needle) - 1) = needle

\* White space of the regular expressions' \s and of String.prototype.trim:
\* the JSON white space and, beyond it, the form feed.
IsSpace(c) == c \in {" ", "\n", "\t", "\r", "\f"}

\* The first position from i on that holds no white space.
RECURSIVE SkipSpace(_, _)
SkipSpace(s, i) ==
    IF i <= Len(s) /\ IsSpace(s[i]) THEN SkipSpace(s, i + 1) ELSE i

\* The last position up to i that holds no white space (0 when none).
RECURSIVE SkipSpaceBack(_, _)
SkipSpaceBack(s, i) ==
    IF i >= 1 /\ IsSpace(s[i]) THEN SkipSpaceBack(s, i - 1) ELSE i

\* String.prototype.trim.
Trim(s) == SubSeq(s, SkipSpace(s, 1), SkipSpaceBack(s, Len(s)))

(***************************************************************************)
(* Fence stripping: text.replace(/^```json\s*/, "").replace(/\s*```$/, "") *)
(***************************************************************************)
\* The back-tick character: a TLA+ string cannot hold it, so this one
\* character is written as a word.
BT == "backtick"

FenceOpen == <<BT, BT, BT, "j", "s", "o", "n">>
FenceClose == <<BT, BT, BT>>

\* A variant of StripLeadingFence whose pattern is /^```\s*/: the language
\* tag is left in the text.
StripLeadingBareFence(s) ==
    IF HasLiteral(s, 1, FenceClose)
    THEN SubSeq(s, SkipSpace(s, Len(FenceClose) + 1), Len(s))
    ELSE s

\* replace(/^```json\s*/, ""): an opening fence at the very start goes, with
\* the white space after it.
StripLeadingFence(s) ==
    IF HasLiteral(s, 1, FenceOpen)
    THEN SubSeq(s, SkipSpace(s, Len(FenceOpen) + 1), Len(s))
    ELSE s

\* replace(/\s*```$/, ""): a closing fence at the very end goes, with the
\* white space before it.
StripTrailingFence(s) ==
    IF Len(s) >= Len(FenceClose) /\ HasLiteral(s, Len(s) - Len(FenceClose) + 1, FenceClose)
    THEN SubSeq(s, 1, SkipSpaceBack(s, Len(s) - Len(FenceClose)))
    ELSE s

CleanText(text) == StripTrailingFence(StripLeadingFence(text))

\* The try block around JSON.parse of both JSON handlers.
ParseReply(text) == JSONParse(CleanText(text))

(***************************************************************************)
(* Thrown values and responses.                                            *)
(***************************************************************************)
\* A thrown value: its class, its message property (undefined when it has
\* none) and, for a response error, the categories of the safety ratings of
\* error.response.promptFeedback.
Thrown(cls, message, categories) ==
    [cls |-> cls, message |-> message, categories |-> categories]

SyntaxErrorValue == Thrown("SyntaxError", JStr(MsgUnexpectedToken), <<>>)
TypeErrorValue(msg) == Thrown("TypeError", JStr(msg), <<>>)

\* error instanceof Error
IsError(error) ==
    error.cls \in {"Error", "TypeError", "SyntaxError", "GoogleGenerativeAIFetchError",
                   "GoogleGenerativeAIResponseError"}

\* error instanceof GoogleGenerativeAIResponseError
IsResponseError(error) == error.cls = "GoogleGenerativeAIResponseError"

\* error.message && error.message.includes("API key not valid")
MentionsInvalidKey(error) ==
    Truthy(error.message) /\ Includes(error.message.s, ApiKeyNotValid)

NoBody == [none |-> TRUE]
NoResponse == [status |-> 0, body |-> NoBody, uncaught |-> FALSE]

\* NextResponse.json(body, { status })
Respond(status, body) == [status |-> status, body |-> body, uncaught |-> FALSE]

\* An exception thrown inside a catch block leaves the handler.
Uncaught == [status |-> 0, body |-> NoBody, uncaught |-> TRUE]

InvalidKeyError == <<"Server configuration error: Invalid API key.">>
UnexpectedError == <<"An unexpected error occurred.">>
MissingParameters == <<"Missing required parameters">>
NotValidJson ==
    <<"Failed to parse quiz data from AI response. The response was not valid JSON.">>

TopicShapeError ==
    <<"Invalid response from LLM. Expected a JSON object with a string 'topic' key.">>
QuizShapeError == <<"AI response did not follow the expected JSON structure.">>
InvalidQuestionType ==
    <<"Invalid question type. Only 'Multiple Choice' is supported for now.">>
InvalidQuestion == <<"Missing or invalid 'question' object in request body.">>
InvalidUserMessage == <<"Missing or invalid 'userMessage' in request body.">>
InvalidChatHistory == <<"Missing or invalid 'chatHistory' array in request body.">>
ContentRestricted ==
    <<"The AI could not generate a response due to content restrictions.">>
ChatUnexpectedError == <<"An unexpected error occurred while processing the chat.">>

(***************************************************************************)
(* get-random-topic                                                        *)
(***************************************************************************)
\* The catch block of get-random-topic.  Reading error.message of a thrown
\* null or undefined throws inside the catch block.
GetRandomTopicCatch(error) ==
    IF error.cls \in {"null", "undefined"} THEN Uncaught
    ELSE IF MentionsInvalidKey(error) THEN Respond(500, [error |-> InvalidKeyError])
    ELSE Respond(500, [error |-> UnexpectedError, details |-> error.message])

\* A step of a handler up to its gateway call: either the handler answers
\* (call = FALSE) or it calls the gateway and waits.
Answer(response) == [call |-> FALSE, response |-> response]
CallGateway == [call |-> TRUE, response |-> NoResponse]

\* get-random-topic from the request to the gateway call.
GetRandomTopicBegin(bodyText) ==
    LET body == JSONParse(bodyText) IN
    IF ~body.ok THEN Answer(GetRandomTopicCatch(SyntaxErrorValue))
    ELSE IF Nullish(body.v) THEN Answer(GetRandomTopicCatch(TypeErrorValue(MsgNullProperty)))
    ELSE IF ~Truthy(GetProp(body.v, kDifficulty))
    THEN Answer(Respond(400, [error |-> MissingParameters]))
    ELSE CallGateway

\* "topic" in data throws a TypeError when data is a primitive value.
InThrows(data) == data.t \notin {"obj", "arr"}

\* "topic" in data, for an object or an array.
HasTopic(data) == data.t = "obj" /\ KeyIndex(data.m, kTopic, Len(data.m)) # 0

\* A variant of TopicShape whose last test is !data.topic: an empty topic
\* is a mismatch.
TopicShapeNonEmpty(data) ==
    IF ~Truthy(data) THEN "mismatch"
    ELSE IF InThrows(data) THEN "throw"
    ELSE IF ~HasTopic(data) THEN "mismatch"
    ELSE IF ~Truthy(GetProp(data, kTopic)) \/ GetProp(data, kTopic).t # "str" THEN "mismatch"
    ELSE "ok"

\* !data || !("topic" in data) || typeof data.topic !== "string", or the
\* TypeError of the in operator.
TopicShape(data) ==
    IF ~Truthy(data) THEN "mismatch"
    ELSE IF InThrows(data) THEN "throw"
    ELSE IF ~HasTopic(data) THEN "mismatch"
    ELSE IF GetProp(data, kTopic).t # "str" THEN "mismatch"
    ELSE "ok"

\* get-random-topic from the text of the model's reply to its response.
GetRandomTopicReply(text) ==
    LET parse == ParseReply(text) IN
    IF ~parse.ok
    THEN Respond(500, [error |-> NotValidJson,
                       rawResponseFromLLM |-> text,
                       cleanedTextAttemptedToParse |-> text,
                       parseErrorDetails |-> MsgUnexpectedToken])
    ELSE CASE TopicShape(parse.v) = "throw" ->
                  GetRandomTopicCatch(TypeErrorValue(MsgInOperator))
           [] TopicShape(parse.v) = "mismatch" ->
                  Respond(400, [error |-> TopicShapeError,
                                rawResponseFromLLM |-> text,
                                parsedData |-> parse.v])
           [] OTHER -> Respond(200, parse.v)

(***************************************************************************)
(* generate-quiz                                                           *)
(***************************************************************************)
\* The catch block of generate-quiz.
GenerateQuizCatch(error) ==
    IF IsError(error)
    THEN IF MentionsInvalidKey(error) THEN Respond(500, [error |-> InvalidKeyError])
         ELSE Respond(500, [error |-> UnexpectedError, details |-> error.message])
    ELSE Respond(401, [error |-> InvalidKeyError])

\* A variant of IsSupportedQuestionType that accepts every string.
IsStringQuestionType(questionType) == questionType.t = "str"

\* questionType !== "Multiple Choice" is false.
IsSupportedQuestionType(questionType) == questionType = JStr(MultipleChoice)

\* generate-quiz from the request to the gateway call.
GenerateQuizBegin(bodyText) ==
    LET body == JSONParse(bodyText) IN
    IF ~body.ok THEN Answer(GenerateQuizCatch(SyntaxErrorValue))
    ELSE IF Nullish(body.v) THEN Answer(GenerateQuizCatch(TypeErrorValue(MsgNullProperty)))
    ELSE IF \/ ~Truthy(GetProp(body.v, kTopic))
            \/ ~Truthy(GetProp(body.v, kDifficulty))
            \/ ~Truthy(GetProp(body.v, kQuestionType))
    THEN Answer(Respond(400, [error |-> MissingParameters]))
    ELSE IF ~IsSupportedQuestionType(GetProp(body.v, kQuestionType))
    THEN Answer(Respond(400, [error |-> InvalidQuestionType]))
    ELSE CallGateway

\* options.includes(correctAnswer), for an array of options.
IsOption(options, correctAnswer) ==
    options.t = "arr" /\ \E i \in 1..Len(options.a) : options.a[i] = correctAnswer

\* A variant of QuestionInvalid that also rejects a question whose
\* correctAnswer is none of its options.
QuestionInvalidStrict(q) ==
    IF Nullish(q) THEN "throw"
    ELSE IF \/ ~Truthy(GetProp(q, kQuestionText))
            \/ ~Truthy(GetProp(q, kOptions))
            \/ ~Truthy(GetProp(q, kCorrectAnswer))
            \/ ~Truthy(GetProp(q, kExplanation))
            \/ ~IsOption(GetProp(q, kOptions), GetProp(q, kCorrectAnswer))
    THEN "true"
    ELSE "false"

\* The callback of questions.some: reading a property of a null element
\* throws a TypeError.
QuestionInvalid(q) ==
    IF Nullish(q) THEN "throw"
    ELSE IF \/ ~Truthy(GetProp(q, kQuestionText))
            \/ ~Truthy(GetProp(q, kOptions))
            \/ ~Truthy(GetProp(q, kCorrectAnswer))
            \/ ~Truthy(GetProp(q, kExplanation))
    THEN "true"
    ELSE "false"

\* questions.some(...) from element i on: it stops at the first element for
\* which the callback returns true or throws.
RECURSIVE SomeInvalid(_, _)
SomeInvalid(a, i) ==
    IF i > Len(a) THEN "false"
    ELSE IF QuestionInvalid(a[i]) = "false" THEN SomeInvalid(a, i + 1)
    ELSE QuestionInvalid(a[i])

\* !Array.isArray(questions) || questions.some(...), or its TypeError.
QuizShape(questions) ==
    IF questions.t # "arr" THEN "mismatch"
    ELSE CASE SomeInvalid(questions.a, 1) = "throw" -> "throw"
           [] SomeInvalid(questions.a, 1) = "true" -> "mismatch"
           [] OTHER -> "ok"

\* generate-quiz from the text of the model's reply to its response.
GenerateQuizReply(text) ==
    LET parse == ParseReply(text) IN
    IF ~parse.ok
    THEN Respond(500, [error |-> NotValidJson, rawResponse |-> text])
    ELSE CASE QuizShape(parse.v) = "throw" ->
                  GenerateQuizCatch(TypeErrorValue(MsgNullProperty))
           [] QuizShape(parse.v) = "mismatch" ->
                  Respond(500, [error |-> QuizShapeError, data |-> parse.v])
           [] OTHER -> Respond(200, parse.v)

(***************************************************************************)
(* chat-explanation                                                        *)
(***************************************************************************)
\* safetyRatings.map((r) => r.category).join(", ")
RECURSIVE JoinCategories(_)
JoinCategories(categories) ==
    IF Len(categories) = 0 THEN <<>>
    ELSE IF Len(categories) = 1 THEN <<categories[1]>>
    ELSE <<categories[1], ", ">> \o JoinCategories(Tail(categories))

\* The catch block of chat-explanation.
ChatExplanationCatch(error) ==
    IF IsResponseError(error)
    THEN IF MentionsInvalidKey(error) THEN Respond(500, [error |-> InvalidKeyError])
         ELSE IF error.cls = "GoogleGenerativeAIResponseError"
         THEN Respond(400,
                [error |-> IF Len(error.categories) > 0
                           THEN ContentRestricted \o <<" Blocked due to: ">>
                                    \o JoinCategories(error.categories) \o <<".">>
                           ELSE ContentRestricted,
                 details |-> error.categories])
         ELSE Respond(500, [error |-> ChatUnexpectedError, details |-> error.message])
    ELSE Respond(401, [error |-> InvalidKeyError])

\* !userMessage || typeof userMessage !== "string" || userMessage.trim() === ""
UserMessageInvalid(userMessage) ==
    \/ ~Truthy(userMessage)
    \/ userMessage.t # "str"
    \/ Trim(userMessage.s) = <<>>

\* chatHistory.forEach((msg) => ... msg.sender ... msg.text ...) throws a
\* TypeError at a null element.
PromptThrows(chatHistory) == \E i \in 1..Len(chatHistory.a) : Nullish(chatHistory.a[i])

\* chat-explanation from the request to the gateway call.
ChatExplanationBegin(bodyText) ==
    LET body == JSONParse(bodyText) IN
    IF ~body.ok THEN Answer(ChatExplanationCatch(SyntaxErrorValue))
    ELSE IF Nullish(body.v) THEN Answer(ChatExplanationCatch(TypeErrorValue(MsgNullProperty)))
    ELSE LET question == GetProp(body.v, kQuestion)
             userMessage == GetProp(body.v, kUserMessage)
             chatHistory == GetProp(body.v, kChatHistory)
         IN IF \/ ~Truthy(question)
               \/ ~Truthy(GetProp(question, kQuestionText))
               \/ ~Truthy(GetProp(question, kExplanation))
            THEN Answer(Respond(400, [error |-> InvalidQuestion]))
            ELSE IF UserMessageInvalid(userMessage)
            THEN Answer(Respond(400, [error |-> InvalidUserMessage]))
            ELSE IF ~Truthy(chatHistory) \/ chatHistory.t # "arr"
            THEN Answer(Respond(400, [error |-> InvalidChatHistory]))
            ELSE IF PromptThrows(chatHistory)
            THEN Answer(ChatExplanationCatch(TypeErrorValue(MsgNullProperty)))
            ELSE CallGateway

\* A variant of ChatExplanationReply that strips fence markers from the
\* reply as the JSON handlers do.
ChatExplanationReplyCleaned(text) == Respond(200, [aiMessage |-> CleanText(text)])

\* chat-explanation from the text of the model's reply to its response.
ChatExplanationReply(text) == Respond(200, [aiMessage |-> text])

(***************************************************************************)
(* The texts the handlers are given: request bodies as the client's        *)
(* JSON.stringify writes them, and replies of the model.                   *)
(***************************************************************************)
Elementary == <<"E", "l", "e", "m", "e", "n", "t", "a", "r", "y">>
Rome == <<"r", "o", "m", "e">>
LowerMultipleChoice == <<"m", "u", "l", "t", "i", "p", "l", "e", " ", "c", "h", "o", "i", "c", "e">>
TrueFalse == <<"T", "r", "u", "e", " ", "F", "a", "l", "s", "e">>
Hi == <<"h", "i">>
PaddedHi == <<" ", "h", "i", " ">>
Blank == <<" ", " ">>
kExtra == <<"e", "x", "t", "r", "a">>
kUser == <<"u", "s", "e", "r">>
kAi == <<"a", "i">>
Greeting ==
    <<"H", "e", "l", "l", "o", "!", " ", "H", "o", "w", " ", "c", "a", "n", " ", "I", " ",
    "h", "e", "l", "p", " ", "y", "o", "u", " ", "u", "n", "d", "e", "r", "s", "t", "a", "n",
    "d", " ", "t", "h", "i", "s", " ", "e", "x", "p", "l", "a", "n", "a", "t", "i", "o", "n",
    " ", "b", "e", "t", "t", "e", "r", "?">>
TextNull == <<"n", "u", "l", "l">>
TextTrue == <<"t", "r", "u", "e">>
TextFalse == <<"f", "a", "l", "s", "e">>

\* Bounds of the drawn inputs: the questions of a drawn quiz array, the
\* length of a drawn arbitrary reply and the safety ratings of a blocked
\* reply.
MaxQuestions == 2
MaxLen == 3
MaxRatings == 1

Quote(s) == <<"\"">> \o s \o <<"\"">>

RECURSIVE Join(_)
Join(texts) ==
    IF Len(texts) = 0 THEN <<>>
    ELSE IF Len(texts) = 1 THEN texts[1]
    ELSE texts[1] \o <<",">> \o Join(Tail(texts))

Member(k, valueText) == Quote(k) \o <<":">> \o valueText
ObjectText(members) == <<"{">> \o Join(members) \o <<"}">>
ArrayText(items) == <<"[">> \o Join(items) \o <<"]">>

\* A field left out of an object: no member at all.
Absent == <<>>
Field(k, valueText) == IF valueText = Absent THEN <<>> ELSE <<Member(k, valueText)>>

\* The body of a get-random-topic request.
TopicRequestText(difficulty) == ObjectText(Field(kDifficulty, difficulty))

\* The body of a generate-quiz request.
QuizRequestText(topic, difficulty, questionType) ==
    ObjectText(Field(kTopic, topic) \o Field(kDifficulty, difficulty)
                   \o Field(kQuestionType, questionType))

\* A question object.
QuestionObjectText(questionText, options, correctAnswer, explanation) ==
    ObjectText(Field(kQuestionText, questionText) \o Field(kOptions, options)
                   \o Field(kCorrectAnswer, correctAnswer)
                   \o Field(kExplanation, explanation))

\* A chat message object.
MessageText(sender, text) ==
    ObjectText(<<Member(kSender, Quote(sender)), Member(kText, Quote(text))>>)

\* The body of a chat-explanation request.
ChatRequestText(question, userMessage, chatHistory) ==
    ObjectText(Field(kQuestion, question) \o Field(kUserMessage, userMessage)
                   \o Field(kChatHistory, chatHistory))

FourOptions == ArrayText(<<Quote(<<"a">>), Quote(<<"b">>), Quote(<<"c">>), Quote(<<"d">>)>>)
TwoOptions == ArrayText(<<Quote(<<"a">>), Quote(<<"b">>)>>)

\* A question as the prompt asks for it.
GoodQuestion ==
    QuestionObjectText(Quote(<<"q">>), FourOptions, Quote(<<"a">>), Quote(<<"e">>))

\* Questions that have the four fields and break what the prompt asks for:
\* an answer that is no option, two options, no option.
WrongAnswerQuestion ==
    QuestionObjectText(Quote(<<"q">>), FourOptions, Quote(<<"z">>), Quote(<<"e">>))
TwoOptionQuestion ==
    QuestionObjectText(Quote(<<"q">>), TwoOptions, Quote(<<"a">>), Quote(<<"e">>))
NoOptionQuestion ==
    QuestionObjectText(Quote(<<"q">>), ArrayText(<<>>), Quote(<<"a">>), Quote(<<"e">>))

\* Questions with a field absent or present and empty.
NoExplanationQuestion ==
    QuestionObjectText(Quote(<<"q">>), FourOptions, Quote(<<"a">>), Absent)
EmptyTextQuestion ==
    QuestionObjectText(Quote(<<>>), FourOptions, Quote(<<"a">>), Quote(<<"e">>))
ZeroAnswerQuestion ==
    QuestionObjectText(Quote(<<"q">>), FourOptions, <<"0">>, Quote(<<"e">>))

\* The elements of the drawn arrays.
ElementTexts ==
    {GoodQuestion, WrongAnswerQuestion, TwoOptionQuestion, NoExplanationQuestion,
     EmptyTextQuestion, TextNull, <<"5">>}

\* Arrays of up to MaxQuestions elements, the array of three questions the
\* prompt asks for, and arrays of one element of further kinds.
ArrayTexts ==
    {ArrayText(a) : a \in UNION {[1..n -> ElementTexts] : n \in 0..MaxQuestions}}
        \cup {ArrayText(<<GoodQuestion, GoodQuestion, GoodQuestion>>),
              ArrayText(<<NoOptionQuestion>>), ArrayText(<<ZeroAnswerQuestion>>),
              ArrayText(<<Quote(<<"q">>)>>), ArrayText(<<ArrayText(<<>>)>>)}

\* Values that are no array.
ScalarTexts ==
    {<<"5">>, <<"0">>, Quote(<<"q">>), Quote(<<>>), TextNull, TextTrue, TextFalse}

\* The reply {"topic": "ancient rome"}.
AncientRomeText ==
    <<"{">> \o Quote(kTopic) \o <<":", " ">> \o Quote(AncientRome) \o <<"}">>

ObjectTexts ==
    {ObjectText(<<>>), GoodQuestion, AncientRomeText,
     ObjectText(<<Member(kTopic, Quote(AncientRome))>>),
     ObjectText(<<Member(kTopic, Quote(<<>>))>>),
     ObjectText(<<Member(kTopic, <<"5">>)>>),
     ObjectText(<<Member(kTopic, TextNull)>>),
     ObjectText(<<Member(kExtra, <<"1">>)>>),
     ObjectText(<<Member(kTopic, Quote(Rome)), Member(kExtra, <<"1">>)>>),
     ObjectText(<<Member(kTopic, Quote(Rome)), Member(kTopic, <<"5">>)>>),
     <<"{", " ">> \o Member(kTopic, <<" ">> \o Quote(AncientRome)) \o <<" ", "}">>}

\* Texts that are no JSON.
BrokenTexts ==
    {NotJsonAtAll, <<>>, <<"[">>, <<"[", "1", ",", "]">>, <<"0", "1">>, <<"n", "u", "l">>,
     ObjectText(<<Member(kTopic, Absent)>>),
     ObjectText(<<Member(kTopic, Quote(Rome))>>) \o <<" ", "x">>,
     <<"\f", "1">>}

\* A text wrapped in fence markers: ```json, newline, t, newline, ```.
Fenced(t) == FenceOpen \o <<"\n">> \o t \o <<"\n">> \o FenceClose

\* The ways a reply surrounds its text.
Surrounded(t) ==
    {t,
     Fenced(t),
     FenceOpen \o t \o FenceClose,
     FenceOpen \o <<"\n">> \o t,
     t \o <<"\n">> \o FenceClose,
     FenceClose \o <<"\n">> \o t \o <<"\n">> \o FenceClose,
     <<" ">> \o Fenced(t),
     Fenced(t) \o <<"\n">>,
     <<" ", "\n">> \o t \o <<"\n">>}

\* Arbitrary short texts.
FuzzAlphabet == {"1", "[", "]", ",", " ", "\"", BT}
FuzzTexts == UNION {[1..n -> FuzzAlphabet] : n \in 0..MaxLen}

\* The replies of the model to a prompt that asks for JSON.
ReplyTexts ==
    UNION {Surrounded(t) : t \in ArrayTexts \cup ScalarTexts \cup ObjectTexts \cup BrokenTexts}
        \cup FuzzTexts

\* The replies of the model to a chat prompt.
ChatReplyTexts == {Hi, <<>>, Fenced(ObjectText(<<Member(kTopic, Quote(Rome))>>)), NotJsonAtAll}

\* The categories of the safety ratings of a blocked reply.
Categories == {"HARM_CATEGORY_HARASSMENT", "HARM_CATEGORY_DANGEROUS_CONTENT"}
RatingLists == UNION {[1..n -> Categories] : n \in 0..MaxRatings}

\* The values the gateway call or response.text() throws.
GatewayErrors ==
    {Thrown("GoogleGenerativeAIFetchError", JStr(MsgInvalidKey), <<>>),
     Thrown("GoogleGenerativeAIFetchError", JStr(MsgFetchFailed), <<>>),
     Thrown("GoogleGenerativeAIResponseError", JStr(MsgInvalidKey), <<>>),
     Thrown("Error", JStr(MsgInvalidKey), <<>>),
     Thrown("Error", JStr(MsgLowerKey), <<>>),
     Thrown("Error", JStr(<<>>), <<>>),
     Thrown("TypeError", JStr(MsgFetchFailed), <<>>),
     Thrown("Object", JStr(MsgInvalidKey), <<>>),
     Thrown("Object", JStr(MsgFetchFailed), <<>>),
     Thrown("string", JUndefined, <<>>),
     Thrown("undefined", JUndefined, <<>>)}
        \cup {Thrown("GoogleGenerativeAIResponseError", JStr(MsgBlocked), c) : c \in RatingLists}

NoOutcome == [kind |-> "none"]
TextOutcome(text) == [kind |-> "text", text |-> text]
ThrowOutcome(error) == [kind |-> "throw", error |-> error]

\* What the awaited gateway call and response.text() end in.
JsonOutcomes == {TextOutcome(t) : t \in ReplyTexts} \cup {ThrowOutcome(e) : e \in GatewayErrors}
ChatOutcomes ==
    {TextOutcome(t) : t \in ChatReplyTexts} \cup {ThrowOutcome(e) : e \in GatewayErrors}

\* Bodies every handler is sent: no JSON, and JSON that is no object.
OddBodies ==
    {<<>>, <<"{">>, NotJsonAtAll, TextNull, <<"5">>, Quote(Rome), ArrayText(<<>>), TextTrue}

GetRandomTopicBodies ==
    {TopicRequestText(d) :
        d \in {Absent, Quote(Elementary), Quote(<<>>), TextNull, <<"0">>, <<"5">>, TextFalse}}
        \cup OddBodies

GenerateQuizBodies ==
    {QuizRequestText(t, d, q) :
        t \in {Absent, Quote(Rome), Quote(<<>>), TextNull},
        d \in {Absent, Quote(Elementary), Quote(<<>>), <<"0">>},
        q \in {Absent, Quote(MultipleChoice), Quote(LowerMultipleChoice), Quote(TrueFalse),
               Quote(<<>>), TextNull, <<"1">>, TextTrue,
               ArrayText(<<Quote(MultipleChoice)>>)}}
        \cup OddBodies

QuestionTexts ==
    {Absent, TextNull, <<"5">>, ObjectText(<<>>), GoodQuestion, NoExplanationQuestion,
     EmptyTextQuestion,
     ObjectText(<<Member(kExplanation, Quote(<<"e">>))>>),
     ObjectText(<<Member(kQuestionText, Quote(<<"q">>)), Member(kExplanation, Quote(<<"e">>))>>)}

UserMessageTexts ==
    {Absent, Quote(<<>>), Quote(Blank), Quote(Hi), Quote(PaddedHi), <<"5">>, TextNull}

ChatHistoryTexts ==
    {Absent, TextNull, <<"0">>, ObjectText(<<>>), Quote(Hi), ArrayText(<<>>),
     ArrayText(<<MessageText(kAi, Greeting), MessageText(kUser, Hi)>>),
     ArrayText(<<TextNull>>)}

ChatExplanationBodies ==
    {ChatRequestText(q, u, h) :
        q \in QuestionTexts, u \in UserMessageTexts, h \in ChatHistoryTexts}
        \cup OddBodies

(***************************************************************************)
(* The values the client components hold.                                  *)
(***************************************************************************)
kSelectedAnswer ==
    <<"s", "e", "l", "e", "c", "t", "e", "d", "A", "n", "s", "w", "e", "r">>
kIsChecked == <<"i", "s", "C", "h", "e", "c", "k", "e", "d">>
kAiMessage == <<"a", "i", "M", "e", "s", "s", "a", "g", "e">>
kError == <<"e", "r", "r", "o", "r">>

\* { ...q }: the own properties of an object; a value that is no object
\* spreads to nothing.
Spread(q) == IF q.t = "obj" THEN q.m ELSE <<>>

\* { ...q, selectedAnswer: null, isChecked: false }
WithState(q) ==
    JObj(PutMember(PutMember(Spread(q), kSelectedAnswer, JNull), kIsChecked, JBool(FALSE)))

\* { sender, text }
Message(sender, text) == JObj(<<[k |-> kSender, v |-> JStr(sender)], [k |-> kText, v |-> text]>>)

\* The message the chat starts with.
GreetingMessage == Message(kAi, JStr(Greeting))

\* A checked question as Home passes it to its ExplanationChat.
CheckedQuestion(text, selectedAnswer) ==
    JObj(PutMember(PutMember(Spread(JSONParse(text).v), kSelectedAnswer, JStr(selectedAnswer)),
                   kIsChecked, JBool(TRUE)))

\* The question props of the chat: a reference and the object it refers
\* to.  Two references can refer to objects with the same properties.
ChatQuestions ==
    {[ref |-> 1, v |-> CheckedQuestion(GoodQuestion, <<"a">>)],
     [ref |-> 2, v |-> CheckedQuestion(GoodQuestion, <<"a">>)],
     [ref |-> 3, v |-> CheckedQuestion(WrongAnswerQuestion, <<"b">>)]}

(***************************************************************************)
(* The state.  Three specifications share it: Spec runs the handlers and   *)
(* leaves the client state alone, HomeSpec runs the quiz page and ChatSpec *)
(* one ExplanationChat, each leaving the rest alone.                       *)
(*                                                                         *)
(* Spec: one request at a time through one of the handlers.  A handler     *)
(* runs from the request to its gateway call in one step and, when the     *)
(* awaited call settles, from there to its response in another.            *)
(***************************************************************************)
VARIABLES
    handler,       \* the handler of the request: its endpoint, or "none"
    pc,            \* "idle", "awaiting" the gateway, or "done"
    bodyText,      \* the text of the request body
    gatewayCalls,  \* the gateway calls made for the request
    outcome,       \* what the gateway call ended in
    response       \* the response of the handler

\* The state of Home.
VARIABLES
    topic,               \* useState("")
    difficulty,          \* useState("Elementary")
    quizData,            \* useState(null): null or the questions with their state
    isLoading,           \* useState(false)
    quizError,           \* the state named error: null or a message
    randomTopicLoading,  \* useState(false)
    quizFetches,         \* the bodies of the generate-quiz requests in flight
    topicFetches         \* the bodies of the get-random-topic requests in flight

\* The state of one ExplanationChat.
VARIABLES
    rendered,        \* the component has rendered and run its effects
    question,        \* the question prop: a reference and the object it holds
    messages,        \* useState([])
    currentMessage,  \* useState("")
    chatIsLoading,   \* the state named isLoading of the chat
    chatError,       \* useState(null)
    chatFetches,     \* the bodies of the chat-explanation requests in flight
    chatOutcome      \* what the fetch that settled last ended in

handlerVars == <<handler, pc, bodyText, gatewayCalls, outcome, response>>
homeVars ==
    <<topic, difficulty, quizData, isLoading, quizError, randomTopicLoading, quizFetches,
      topicFetches>>
chatVars ==
    <<rendered, question, messages, currentMessage, chatIsLoading, chatError, chatFetches,
      chatOutcome>>
vars == <<handlerVars, homeVars, chatVars>>

\* No request has reached a handler.
HandlerInit ==
    /\ handler = "none"
    /\ pc = "idle"
    /\ bodyText = <<>>
    /\ gatewayCalls = 0
    /\ outcome = NoOutcome
    /\ response = NoResponse

\* Home before any event: the initial values of its useState calls.
HomeInit ==
    /\ topic = JStr(<<>>)
    /\ difficulty = Elementary
    /\ quizData = JNull
    /\ isLoading = FALSE
    /\ quizError = JNull
    /\ randomTopicLoading = FALSE
    /\ quizFetches = <<>>
    /\ topicFetches = <<>>

\* An ExplanationChat before its first render, for the first question.
ChatInit ==
    /\ rendered = FALSE
    /\ question = CHOOSE q \in ChatQuestions : q.ref = 1
    /\ messages = <<>>
    /\ currentMessage = <<>>
    /\ chatIsLoading = FALSE
    /\ chatError = JNull
    /\ chatFetches = <<>>
    /\ chatOutcome = NoOutcome

Init == HandlerInit /\ HomeInit /\ ChatInit

\* get-random-topic, from the request to its gateway call.
GetRandomTopicPOST ==
    /\ pc = "idle"
    /\ \E b \in GetRandomTopicBodies :
          /\ bodyText' = b
          /\ pc' = IF GetRandomTopicBegin(b).call THEN "awaiting" ELSE "done"
          /\ gatewayCalls' = IF GetRandomTopicBegin(b).call THEN gatewayCalls + 1 ELSE gatewayCalls
          /\ response' = GetRandomTopicBegin(b).response
    /\ handler' = "get-random-topic"
    /\ outcome' = NoOutcome
    /\ UNCHANGED <<homeVars, chatVars>>

\* get-random-topic, from the settled gateway call to its response.
GetRandomTopicSettle ==
    /\ pc = "awaiting"
    /\ handler = "get-random-topic"
    /\ \E o \in JsonOutcomes :
          /\ outcome' = o
          /\ response' = IF o.kind = "text" THEN GetRandomTopicReply(o.text)
                         ELSE GetRandomTopicCatch(o.error)
    /\ pc' = "done"
    /\ UNCHANGED <<handler, bodyText, gatewayCalls, homeVars, chatVars>>

\* generate-quiz, from the request to its gateway call.
GenerateQuizPOST ==
    /\ pc = "idle"
    /\ \E b \in GenerateQuizBodies :
          /\ bodyText' = b
          /\ pc' = IF GenerateQuizBegin(b).call THEN "awaiting" ELSE "done"
          /\ gatewayCalls' = IF GenerateQuizBegin(b).call THEN gatewayCalls + 1 ELSE gatewayCalls
          /\ response' = GenerateQuizBegin(b).response
    /\ handler' = "generate-quiz"
    /\ outcome' = NoOutcome
    /\ UNCHANGED <<homeVars, chatVars>>

\* generate-quiz, from the settled gateway call to its response.
GenerateQuizSettle ==
    /\ pc = "awaiting"
    /\ handler = "generate-quiz"
    /\ \E o \in JsonOutcomes :
          /\ outcome' = o
          /\ response' = IF o.kind = "text" THEN GenerateQuizReply(o.text)
                         ELSE GenerateQuizCatch(o.error)
    /\ pc' = "done"
    /\ UNCHANGED <<handler, bodyText, gatewayCalls, homeVars, chatVars>>

\* chat-explanation, from the request to its gateway call.
ChatExplanationPOST ==
    /\ pc = "idle"
    /\ \E b \in ChatExplanationBodies :
          /\ bodyText' = b
          /\ pc' = IF ChatExplanationBegin(b).call THEN "awaiting" ELSE "done"
          /\ gatewayCalls' = IF ChatExplanationBegin(b).call THEN gatewayCalls + 1 ELSE gatewayCalls
          /\ response' = ChatExplanationBegin(b).response
    /\ handler' = "chat-explanation"
    /\ outcome' = NoOutcome
    /\ UNCHANGED <<homeVars, chatVars>>

\* chat-explanation, from the settled gateway call to its response.
ChatExplanationSettle ==
    /\ pc = "awaiting"
    /\ handler = "chat-explanation"
    /\ \E o \in ChatOutcomes :
          /\ outcome' = o
          /\ response' = IF o.kind = "text" THEN ChatExplanationReply(o.text)
                         ELSE ChatExplanationCatch(o.error)
    /\ pc' = "done"
    /\ UNCHANGED <<handler, bodyText, gatewayCalls, homeVars, chatVars>>

\* The handler has returned; nothing of the request is kept.
Return ==
    /\ pc = "done"
    /\ handler' = "none"
    /\ pc' = "idle"
    /\ bodyText' = <<>>
    /\ gatewayCalls' = 0
    /\ outcome' = NoOutcome
    /\ response' = NoResponse
    /\ UNCHANGED <<homeVars, chatVars>>

Next ==
    \/ GetRandomTopicPOST
    \/ GetRandomTopicSettle
    \/ GenerateQuizPOST
    \/ GenerateQuizSettle
    \/ ChatExplanationPOST
    \/ ChatExplanationSettle
    \/ Return

Spec == Init /\ [][Next]_vars

(***************************************************************************)
(* The request and the reply of the state, as the handlers read them.      *)
(***************************************************************************)
\* The parsed request body.
Body == JSONParse(bodyText)

\* Handler h has answered.
Done(h) == pc = "done" /\ handler = h

\* Handler h has answered after its gateway call returned a text.
Replied(h) == Done(h) /\ outcome.kind = "text"

\* Handler h has answered after its gateway call threw.
Failed(h) == Done(h) /\ outcome.kind = "throw"

\* The catch block of handler h.
CatchOf(h, error) ==
    CASE h = "get-random-topic" -> GetRandomTopicCatch(error)
      [] h = "generate-quiz" -> GenerateQuizCatch(error)
      [] OTHER -> ChatExplanationCatch(error)

\* The response body has a diagnostic field holding the text.
CarriesText(text) ==
    \E f \in DOMAIN response.body \cap
              {"rawResponse", "rawResponseFromLLM", "cleanedTextAttemptedToParse",
               "parseErrorDetails"} :
        response.body[f] = text

\* The response body has a diagnostic field holding the parsed value.
CarriesValue(v) ==
    \E f \in DOMAIN response.body \cap {"data", "parsedData"} : response.body[f] = v

(***************************************************************************)
(* C1.  In each handler a gateway failure whose message contains "API key  *)
(* not valid" is answered with one status, the server-configuration-error  *)
(* status, and no other gateway failure of that handler is answered with   *)
(* that status.                                                            *)
(***************************************************************************)
C1_InvalidKeyStatusDistinct ==
    (pc = "done" /\ outcome.kind = "throw" /\ MentionsInvalidKey(outcome.error)) =>
        \A e \in GatewayErrors :
            IF MentionsInvalidKey(e)
            THEN CatchOf(handler, e).status = response.status
            ELSE CatchOf(handler, e).status # response.status

(***************************************************************************)
(* C2.  chat-explanation answers every gateway failure whose message does  *)
(* not contain "API key not valid" with status 500, never with the         *)
(* invalid-API-key message, and with the failure's message in the body     *)
(* when it has one.                                                        *)
(***************************************************************************)
C2_ChatOtherFailuresGeneric ==
    (Failed("chat-explanation") /\ ~MentionsInvalidKey(outcome.error)) =>
        /\ response.status = 500
        /\ response.body.error # InvalidKeyError
        /\ Truthy(outcome.error.message) =>
               /\ "details" \in DOMAIN response.body
               /\ response.body.details = outcome.error.message

(***************************************************************************)
(* C3.  A generate-quiz request with a non-empty topic and difficulty and  *)
(* a questionType other than "Multiple Choice" is answered with status 400 *)
(* and never reaches the gateway call.                                     *)
(***************************************************************************)
C3_UnsupportedTypeRejected ==
    ( /\ handler = "generate-quiz"
      /\ Body.ok
      /\ ~Nullish(Body.v)
      /\ Truthy(GetProp(Body.v, kTopic))
      /\ Truthy(GetProp(Body.v, kDifficulty))
      /\ GetProp(Body.v, kQuestionType) # JStr(MultipleChoice) ) =>
        /\ pc = "done"
        /\ response.status = 400
        /\ gatewayCalls = 0
        /\ outcome = NoOutcome

\* A question type that is a non-empty string other than the supported one
\* has been rejected.
C3_Witness ==
    /\ Done("generate-quiz")
    /\ Body.ok
    /\ Truthy(GetProp(Body.v, kTopic))
    /\ Truthy(GetProp(Body.v, kDifficulty))
    /\ GetProp(Body.v, kQuestionType) = JStr(LowerMultipleChoice)
    /\ response.status = 400
    /\ response.body.error = InvalidQuestionType

(***************************************************************************)
(* C4.  A request with a missing or invalid field (generate-quiz: topic,   *)
(* difficulty or questionType; get-random-topic: difficulty;               *)
(* chat-explanation: question without questionText or explanation,         *)
(* userMessage empty or blank, chatHistory no array) is answered with      *)
(* status 400 and never reaches the gateway call.                          *)
(***************************************************************************)
FieldsInvalid(h, body) ==
    CASE h = "get-random-topic" -> ~Truthy(GetProp(body, kDifficulty))
      [] h = "generate-quiz" ->
            \/ ~Truthy(GetProp(body, kTopic))
            \/ ~Truthy(GetProp(body, kDifficulty))
            \/ ~Truthy(GetProp(body, kQuestionType))
      [] OTHER ->
            \/ ~Truthy(GetProp(GetProp(body, kQuestion), kQuestionText))
            \/ ~Truthy(GetProp(GetProp(body, kQuestion), kExplanation))
            \/ GetProp(body, kUserMessage).t # "str"
            \/ Trim(GetProp(body, kUserMessage).s) = <<>>
            \/ GetProp(body, kChatHistory).t # "arr"

C4_InvalidRequestsRejected ==
    (handler # "none" /\ Body.ok /\ FieldsInvalid(handler, Body.v)) =>
        /\ pc = "done"
        /\ response.status = 400
        /\ gatewayCalls = 0

(***************************************************************************)
(* C5.  For a reply t that is JSON text, generate-quiz and                 *)
(* get-random-topic parse t wrapped in fence markers to the value they     *)
(* parse the bare t to, and answer the wrapped reply as they answered the  *)
(* bare one: same status and, on success, same body.                       *)
(***************************************************************************)
C5_FenceRoundTrip ==
    ( /\ pc = "done"
      /\ handler \in {"generate-quiz", "get-random-topic"}
      /\ outcome.kind = "text"
      /\ JSONParse(outcome.text).ok ) =>
        LET wrapped == Fenced(outcome.text)
            again == IF handler = "generate-quiz" THEN GenerateQuizReply(wrapped)
                     ELSE GetRandomTopicReply(wrapped)
        IN /\ ParseReply(wrapped).ok
           /\ ParseReply(wrapped).v = JSONParse(outcome.text).v
           /\ ParseReply(wrapped) = ParseReply(outcome.text)
           /\ again.status = response.status
           /\ again.uncaught = response.uncaught
           /\ response.status = 200 => again.body = response.body

\* A bare JSON reply with white space of its own has been answered with
\* success.
C5_Witness ==
    /\ Replied("get-random-topic")
    /\ outcome.text = <<"{", " ">> \o Member(kTopic, <<" ">> \o Quote(AncientRome)) \o <<" ", "}">>
    /\ response.status = 200
    /\ GetRandomTopicReply(Fenced(outcome.text)).status = 200

(***************************************************************************)
(* C6.  When the reply is no JSON after fence stripping, generate-quiz     *)
(* answers with a server-error status and a body carrying the raw reply,   *)
(* the cleaned reply and the parser's error message.                       *)
(***************************************************************************)
C6_MalformedQuizDiagnostics ==
    (Replied("generate-quiz") /\ ~ParseReply(outcome.text).ok) =>
        /\ response.status \in 500..599
        /\ CarriesText(outcome.text)
        /\ CarriesText(CleanText(outcome.text))
        /\ CarriesText(MsgUnexpectedToken)

(***************************************************************************)
(* C7.  When the reply parses to a value that is no array, or to an array  *)
(* with an element (a null or non-object element too) that lacks           *)
(* questionText, options, correctAnswer or explanation, generate-quiz      *)
(* answers with status 500 and a body carrying the parsed value.           *)
(***************************************************************************)
QuestionKeys == {kQuestionText, kOptions, kCorrectAnswer, kExplanation}

\* Element q has no property k.
Lacks(q, k) == GetProp(q, k).t = "undefined"

C7_ShapeMismatchCarriesValue ==
    ( /\ Replied("generate-quiz")
      /\ ParseReply(outcome.text).ok
      /\ LET v == ParseReply(outcome.text).v IN
           \/ v.t # "arr"
           \/ \E i \in 1..Len(v.a) : \E k \in QuestionKeys : Lacks(v.a[i], k) ) =>
        /\ response.status = 500
        /\ CarriesValue(ParseReply(outcome.text).v)

(***************************************************************************)
(* C8.  get-random-topic answers a reply that is no JSON, and a reply that *)
(* parses to anything but an object with a string topic, with a 5xx status *)
(* and a body carrying the raw reply and the cleaned reply or the parsed   *)
(* value.                                                                  *)
(***************************************************************************)
\* The parsed value is an object with a string topic field.
IsTopicObject(v) == v.t = "obj" /\ GetProp(v, kTopic).t = "str"

C8_TopicFailuresServerError ==
    ( /\ Replied("get-random-topic")
      /\ ~(ParseReply(outcome.text).ok /\ IsTopicObject(ParseReply(outcome.text).v)) ) =>
        /\ response.status \in 500..599
        /\ CarriesText(outcome.text)
        /\ IF ParseReply(outcome.text).ok
           THEN CarriesValue(ParseReply(outcome.text).v)
           ELSE CarriesText(CleanText(outcome.text))

(***************************************************************************)
(* C9.  When the reply parses to an object with a string topic field,      *)
(* get-random-topic answers with status 200 and a body whose topic is that *)
(* string; the body is the parsed object, so for the reply                 *)
(* {"topic": "ancient rome"} it is exactly {topic: "ancient rome"}.        *)
(***************************************************************************)
C9_TopicReturned ==
    ( /\ Replied("get-random-topic")
      /\ ParseReply(outcome.text).ok
      /\ IsTopicObject(ParseReply(outcome.text).v) ) =>
        /\ response.status = 200
        /\ response.body = ParseReply(outcome.text).v
        /\ GetProp(response.body, kTopic) = GetProp(ParseReply(outcome.text).v, kTopic)
        /\ outcome.text = AncientRomeText =>
               response.body = JObj(<<[k |-> kTopic, v |-> JStr(AncientRome)]>>)

\* The reply {"topic": "ancient rome"} has been answered.
C9_Witness ==
    /\ Replied("get-random-topic")
    /\ outcome.text = AncientRomeText
    /\ response.status = 200
    /\ GetProp(response.body, kTopic) = JStr(AncientRome)

(***************************************************************************)
(* C10.  As claimed: when the reply parses to an array whose every element *)
(* has questionText, options, correctAnswer and explanation, generate-quiz *)
(* answers with status 200 and that array.                                 *)
(***************************************************************************)
C10_Original ==
    ( /\ Replied("generate-quiz")
      /\ ParseReply(outcome.text).ok
      /\ LET v == ParseReply(outcome.text).v IN
           /\ v.t = "arr"
           /\ \A i \in 1..Len(v.a) : \A k \in QuestionKeys : ~Lacks(v.a[i], k) ) =>
        /\ response.status = 200
        /\ response.body = ParseReply(outcome.text).v

(***************************************************************************)
(* C10, amended.  When the reply parses to an array whose every element    *)
(* has a truthy questionText, options, correctAnswer and explanation (not  *)
(* absent, null, false, 0 or the empty string), generate-quiz answers with *)
(* status 200 and that array unchanged, whatever the number of elements,   *)
(* the number of options and the membership of correctAnswer in options.   *)
(***************************************************************************)
C10_TruthyFieldsAccepted ==
    ( /\ Replied("generate-quiz")
      /\ ParseReply(outcome.text).ok
      /\ LET v == ParseReply(outcome.text).v IN
           /\ v.t = "arr"
           /\ \A i \in 1..Len(v.a) : \A k \in QuestionKeys : Truthy(GetProp(v.a[i], k)) ) =>
        /\ response.status = 200
        /\ response.body = ParseReply(outcome.text).v

\* An array of two questions, one with an answer that is no option and one
\* with two options, has been accepted.
C10_Witness ==
    /\ Replied("generate-quiz")
    /\ outcome.text = ArrayText(<<WrongAnswerQuestion, TwoOptionQuestion>>)
    /\ response.status = 200
    /\ response.body = JSONParse(outcome.text).v
    /\ Len(response.body.a) = 2

(***************************************************************************)
(* C11.  After a gateway call that returned a text, chat-explanation       *)
(* answers with status 200 and the body {aiMessage} whose aiMessage is     *)
(* that text, character for character: fence markers stay, and a text that *)
(* is no JSON is returned as it is.                                        *)
(***************************************************************************)
C11_ChatReplyVerbatim ==
    Replied("chat-explanation") =>
        /\ response.status = 200
        /\ ~response.uncaught
        /\ DOMAIN response.body = {"aiMessage"}
        /\ response.body.aiMessage = outcome.text

\* A reply wrapped in fence markers has been returned with its markers.
C11_Witness ==
    /\ Replied("chat-explanation")
    /\ HasLiteral(outcome.text, 1, FenceOpen)
    /\ CleanText(outcome.text) # outcome.text
    /\ response.status = 200
    /\ response.body.aiMessage = outcome.text

(***************************************************************************)
(* C12.  Whatever the request body and whatever the gateway call returns   *)
(* or throws, a handler that has ended has answered with a response: no    *)
(* exception has left it.                                                  *)
(***************************************************************************)
C12_EveryFailureAnswered ==
    pc = "done" =>
        /\ ~response.uncaught
        /\ response.status \in 200..599

(***************************************************************************)
(* C13.  A handler makes one gateway call for a request that passes its    *)
(* validation and none for a request that fails it, and never more than    *)
(* one.                                                                    *)
(***************************************************************************)
\* The request body passes the validation of handler h.
ValidationPasses(h, body) ==
    /\ body.ok
    /\ ~FieldsInvalid(h, body.v)
    /\ h = "generate-quiz" => IsSupportedQuestionType(GetProp(body.v, kQuestionType))

C13_OneCallWhenValid ==
    /\ gatewayCalls <= 1
    /\ pc \in {"awaiting", "done"} =>
           gatewayCalls = IF ValidationPasses(handler, Body) THEN 1 ELSE 0

(***************************************************************************)
(* C14.  A reply that parses as JSON after fence stripping is answered by  *)
(* generate-quiz and get-random-topic either with the parsed value and     *)
(* status 200 or with the handler's shape-mismatch response, never with    *)
(* the response of the catch block.                                        *)
(***************************************************************************)
\* The shape-mismatch response of handler h for the reply text.
ShapeMismatchResponse(h, text) ==
    IF h = "get-random-topic"
    THEN Respond(400, [error |-> TopicShapeError,
                       rawResponseFromLLM |-> text,
                       parsedData |-> ParseReply(text).v])
    ELSE Respond(500, [error |-> QuizShapeError, data |-> ParseReply(text).v])

C14_ParsedTextsClassified ==
    ( /\ pc = "done"
      /\ handler \in {"generate-quiz", "get-random-topic"}
      /\ outcome.kind = "text"
      /\ ParseReply(outcome.text).ok ) =>
        \/ response = Respond(200, ParseReply(outcome.text).v)
        \/ response = ShapeMismatchResponse(handler, outcome.text)

(***************************************************************************)
(* The clients.  A component sends a request as JSON.stringify writes it   *)
(* and reads the response with response.json().                            *)
(***************************************************************************)
\* The decimal digits of a natural number.
RECURSIVE NumText(_)
NumText(n) == IF n < 10 THEN <<Digits[n + 1]>> ELSE Append(NumText(n \div 10), Digits[(n % 10) + 1])

\* The characters of a string as JSON.stringify writes them between the
\* quotes.
RECURSIVE EscapeChars(_)
EscapeChars(s) ==
    IF Len(s) = 0 THEN <<>>
    ELSE (CASE s[1] = "\"" -> <<"\\", "\"">>
            [] s[1] = "\\" -> <<"\\", "\\">>
            [] s[1] = "\n" -> <<"\\", "n">>
            [] s[1] = "\t" -> <<"\\", "t">>
            [] s[1] = "\r" -> <<"\\", "r">>
            [] s[1] = "\f" -> <<"\\", "f">>
            [] OTHER -> <<s[1]>>) \o EscapeChars(Tail(s))

RECURSIVE Stringify(_)
RECURSIVE MemberTexts(_, _)

\* The members of an object from member i on: a member whose value is
\* undefined is left out.
MemberTexts(m, i) ==
    IF i > Len(m) THEN <<>>
    ELSE IF m[i].v.t = "undefined" THEN MemberTexts(m, i + 1)
    ELSE <<Member(EscapeChars(m[i].k), Stringify(m[i].v))>> \o MemberTexts(m, i + 1)

\* JSON.stringify(v) for a value other than undefined; an undefined element
\* of an array is written as null.
Stringify(v) ==
    CASE v.t = "null" -> TextNull
      [] v.t = "bool" -> IF v.b THEN TextTrue ELSE TextFalse
      [] v.t = "num" -> NumText(v.n)
      [] v.t = "str" -> Quote(EscapeChars(v.s))
      [] v.t = "arr" ->
            ArrayText([i \in 1..Len(v.a) |->
                          IF v.a[i].t = "undefined" THEN TextNull ELSE Stringify(v.a[i])])
      [] OTHER -> ObjectText(MemberTexts(v.m, 1))

\* a || b
Or(a, b) == IF Truthy(a) THEN a ELSE b

\* What the awaited fetch and response.json() end in: a thrown value, or a
\* status and the parsed body.
Rejected(error) == [kind |-> "rejected", error |-> error]
Fetched(status, data) == [kind |-> "fetched", status |-> status, data |-> data]

\* response.ok
IsOk(status) == status \in 200..299

\* The body of a handler's response as response.json() gives it to the
\* client: a parsed reply is itself, and of an error body and a chat body
\* the client reads error and aiMessage and nothing else.
ClientData(body) ==
    IF "t" \in DOMAIN body THEN body
    ELSE IF "aiMessage" \in DOMAIN body
    THEN JObj(<<[k |-> kAiMessage, v |-> JStr(body.aiMessage)]>>)
    ELSE JObj(<<[k |-> kError, v |-> JStr(body.error)]>>)

\* What the client gets for a response of a handler.  An exception that
\* left the handler is answered by the server with a body that is no JSON,
\* so that response.json() throws.
ClientOutcome(r) ==
    IF r.uncaught THEN Rejected(SyntaxErrorValue) ELSE Fetched(r.status, ClientData(r.body))

\* The responses of a handler that has run up to its gateway call, for the
\* outcomes the call can end in.
Served(begin, Reply(_), Catch(_), outcomes) ==
    IF begin.call
    THEN {IF o.kind = "text" THEN Reply(o.text) ELSE Catch(o.error) : o \in outcomes}
    ELSE {begin.response}

MsgFailedToFetch == <<"F", "a", "i", "l", "e", "d", " ", "t", "o", " ", "f", "e", "t", "c", "h">>

\* What a fetch ends in without a response of the handler: the network
\* fails, a thrown value is no Error, an intermediary answers with a body
\* that is no JSON or with JSON of its own.
TransportOutcomes ==
    {Rejected(TypeErrorValue(MsgFailedToFetch)),
     Rejected(Thrown("Error", JStr(<<>>), <<>>)),
     Rejected(Thrown("string", JUndefined, <<>>)),
     Rejected(SyntaxErrorValue),
     Fetched(502, JObj(<<>>)),
     Fetched(502, JNull)}

\* The gateway outcomes behind the requests of the clients.
ClientGatewayErrors ==
    {Thrown("GoogleGenerativeAIFetchError", JStr(MsgInvalidKey), <<>>),
     Thrown("GoogleGenerativeAIResponseError", JStr(MsgBlocked), <<"HARM_CATEGORY_HARASSMENT">>),
     Thrown("undefined", JUndefined, <<>>)}

(***************************************************************************)
(* Home: the quiz page.  Positions in quizData count from 1, so the index  *)
(* i of the source is position i + 1.                                      *)
(***************************************************************************)
Expert == <<"E", "x", "p", "e", "r", "t">>

\* What the user types as a topic and selects as a difficulty.
Topics == {<<>>, Rome}
Difficulties == {Elementary, Expert}

\* Bounds: the questions of a quiz Home is sent, and the requests of one
\* kind a component can have in flight.
MaxQuizLength == 2
MaxInFlight == 2

\* s without its element i.
RemoveAt(s, i) == SubSeq(s, 1, i - 1) \o SubSeq(s, i + 1, Len(s))

\* A question of a reply that carries an isChecked of its own.
CheckedReplyQuestion ==
    ObjectText(<<Member(kQuestionText, Quote(<<"q">>)), Member(kOptions, TwoOptions),
                 Member(kCorrectAnswer, Quote(<<"a">>)), Member(kExplanation, Quote(<<"e">>)),
                 Member(kIsChecked, TextTrue)>>)

\* The replies of the model behind a generate-quiz request of Home: arrays
\* of up to MaxQuizLength equal questions, arrays with a question of four
\* options, a question that carries an isChecked, and replies the handler
\* does not accept.
HomeQuizTexts ==
    {ArrayText([i \in 1..n |-> TwoOptionQuestion]) : n \in 0..MaxQuizLength}
        \cup {ArrayText(<<GoodQuestion>>), ArrayText(<<GoodQuestion, TwoOptionQuestion>>)}
        \cup {ArrayText(<<CheckedReplyQuestion>>)}
        \cup {NotJsonAtAll, ObjectText(<<>>), ArrayText(<<TextNull>>)}

HomeQuizOutcomes ==
    {TextOutcome(t) : t \in HomeQuizTexts} \cup {ThrowOutcome(e) : e \in ClientGatewayErrors}

\* What the fetch of a generate-quiz request with body b ends in.
QuizFetchOutcomes(b) ==
    {ClientOutcome(r) :
        r \in Served(GenerateQuizBegin(b), GenerateQuizReply, GenerateQuizCatch,
                     HomeQuizOutcomes)}
        \cup TransportOutcomes

\* The replies of the model behind a get-random-topic request of Home.
HomeTopicOutcomes ==
    {TextOutcome(t) :
        t \in {AncientRomeText, ObjectText(<<Member(kTopic, Quote(<<>>))>>), ObjectText(<<>>),
               NotJsonAtAll, <<"5">>}}
        \cup {ThrowOutcome(e) : e \in ClientGatewayErrors}

\* What the fetch of a get-random-topic request with body b ends in.
TopicFetchOutcomes(b) ==
    {ClientOutcome(r) :
        r \in Served(GetRandomTopicBegin(b), GetRandomTopicReply, GetRandomTopicCatch,
                     HomeTopicOutcomes)}
        \cup TransportOutcomes

FetchQuizFallback == <<"An unexpected error occurred while fetching the quiz.">>
MsgNotAFunction == <<"data.map is not a function">>

\* response.statusText
StatusText(status) ==
    CASE status = 400 -> <<"Bad Request">>
      [] status = 401 -> <<"Unauthorized">>
      [] status = 500 -> <<"Internal Server Error">>
      [] status = 502 -> <<"Bad Gateway">>
      [] OTHER -> <<>>

\* `Error: ${response.status} ${response.statusText}`
StatusLine(status) == <<"Error: ">> \o NumText(status) \o <<" ">> \o StatusText(status)

\* The catch block of handleGenerateQuiz: the message it sets.
QuizCatch(e) ==
    IF IsError(e) THEN Or(e.message, JStr(FetchQuizFallback)) ELSE JStr(FetchQuizFallback)

\* A variant of handleGenerateQuizSettled that keeps the body of an error
\* response as quiz data besides setting the error.
handleGenerateQuizSettledKeepingData(o, data0, error0) ==
    IF o.kind = "rejected" THEN [quizData |-> data0, error |-> QuizCatch(o.error)]
    ELSE IF ~IsOk(o.status)
    THEN IF Nullish(o.data)
         THEN [quizData |-> data0, error |-> QuizCatch(TypeErrorValue(MsgNullProperty))]
         ELSE [quizData |-> o.data,
               error |-> Or(GetProp(o.data, kError), JStr(StatusLine(o.status)))]
    ELSE IF Nullish(o.data)
    THEN [quizData |-> data0, error |-> QuizCatch(TypeErrorValue(MsgNullProperty))]
    ELSE IF o.data.t # "arr"
    THEN [quizData |-> data0, error |-> QuizCatch(TypeErrorValue(MsgNotAFunction))]
    ELSE [quizData |-> JArr([i \in 1..Len(o.data.a) |-> WithState(o.data.a[i])]),
          error |-> error0]

\* handleGenerateQuiz from the settled fetch on: the quizData and error it
\* leaves, given the ones it found.  Reading data.error of null and calling
\* data.map of a value that is no array throw into the catch block.
handleGenerateQuizSettled(o, data0, error0) ==
    IF o.kind = "rejected" THEN [quizData |-> data0, error |-> QuizCatch(o.error)]
    ELSE IF ~IsOk(o.status)
    THEN IF Nullish(o.data)
         THEN [quizData |-> data0, error |-> QuizCatch(TypeErrorValue(MsgNullProperty))]
         ELSE [quizData |-> data0,
               error |-> Or(GetProp(o.data, kError), JStr(StatusLine(o.status)))]
    ELSE IF Nullish(o.data)
    THEN [quizData |-> data0, error |-> QuizCatch(TypeErrorValue(MsgNullProperty))]
    ELSE IF o.data.t # "arr"
    THEN [quizData |-> data0, error |-> QuizCatch(TypeErrorValue(MsgNotAFunction))]
    ELSE [quizData |-> JArr([i \in 1..Len(o.data.a) |-> WithState(o.data.a[i])]),
          error |-> error0]

\* handleGetRandomTopic from the settled fetch on: data.topic, or undefined
\* from the catch block.
handleGetRandomTopicSettled(o) ==
    IF o.kind = "rejected" \/ Nullish(o.data) THEN JUndefined ELSE GetProp(o.data, kTopic)

\* A variant of handleOptionSelect without the test of isChecked.
handleOptionSelectAlways(data, questionIndex, selectedOption) ==
    IF ~Truthy(data) THEN data
    ELSE JArr([i \in 1..Len(data.a) |->
                  IF i = questionIndex
                  THEN JObj(PutMember(Spread(data.a[i]), kSelectedAnswer, selectedOption))
                  ELSE data.a[i]])

\* handleOptionSelect: the quizData it sets.
handleOptionSelect(data, questionIndex, selectedOption) ==
    IF ~Truthy(data) THEN data
    ELSE JArr([i \in 1..Len(data.a) |->
                  IF i = questionIndex /\ ~Truthy(GetProp(data.a[i], kIsChecked))
                  THEN JObj(PutMember(Spread(data.a[i]), kSelectedAnswer, selectedOption))
                  ELSE data.a[i]])

\* A variant of handleCheckAnswer that checks every question.
handleCheckAnswerAll(data, questionIndex) ==
    IF ~Truthy(data) THEN data
    ELSE JArr([i \in 1..Len(data.a) |->
                  JObj(PutMember(Spread(data.a[i]), kIsChecked, JBool(TRUE)))])

\* handleCheckAnswer: the quizData it sets.
handleCheckAnswer(data, questionIndex) ==
    IF ~Truthy(data) THEN data
    ELSE JArr([i \in 1..Len(data.a) |->
                  IF i = questionIndex
                  THEN JObj(PutMember(Spread(data.a[i]), kIsChecked, JBool(TRUE)))
                  ELSE data.a[i]])

\* A variant of SubmitDisabled: the button is never disabled.
SubmitNeverDisabled == FALSE

\* disabled={isLoading} of the submit button.
SubmitDisabled == isLoading

\* The topic input is required: a form whose topic input is empty is not
\* submitted.  The input shows the topic state while that is a string.
TopicMissing == topic.t = "str" /\ Len(topic.s) = 0

\* The quiz is displayed: quizData && quizData.length > 0.
QuizDisplayed == Truthy(quizData) /\ Len(quizData.a) > 0

\* A variant of CheckOffered without the test of selectedAnswer.
CheckOfferedUnselected(i) == ~Truthy(GetProp(quizData.a[i], kIsChecked))

\* The Check Answer button of the question at position i is displayed.
CheckOffered(i) ==
    /\ ~Truthy(GetProp(quizData.a[i], kIsChecked))
    /\ Truthy(GetProp(quizData.a[i], kSelectedAnswer))

\* The user types a topic.
SetTopic ==
    /\ \E t \in Topics : topic' = JStr(t)
    /\ UNCHANGED <<difficulty, quizData, isLoading, quizError, randomTopicLoading, quizFetches,
                   topicFetches>>
    /\ UNCHANGED <<handlerVars, chatVars>>

\* The user selects a difficulty.
SetDifficulty ==
    /\ \E d \in Difficulties : difficulty' = d
    /\ UNCHANGED <<topic, quizData, isLoading, quizError, randomTopicLoading, quizFetches,
                   topicFetches>>
    /\ UNCHANGED <<handlerVars, chatVars>>

\* The form is submitted: handleGenerateQuiz up to its awaited fetch.
handleGenerateQuiz ==
    /\ ~SubmitDisabled
    /\ ~TopicMissing
    /\ Len(quizFetches) < MaxInFlight
    /\ isLoading' = TRUE
    /\ quizError' = JNull
    /\ quizData' = JNull
    /\ quizFetches' =
           Append(quizFetches,
                  Stringify(JObj(<<[k |-> kTopic, v |-> topic],
                                   [k |-> kDifficulty, v |-> JStr(difficulty)],
                                   [k |-> kQuestionType, v |-> JStr(MultipleChoice)]>>)))
    /\ UNCHANGED <<topic, difficulty, randomTopicLoading, topicFetches>>
    /\ UNCHANGED <<handlerVars, chatVars>>

\* A generate-quiz fetch settles: handleGenerateQuiz from there to its end.
GenerateQuizFetchSettles ==
    /\ Len(quizFetches) > 0
    /\ \E i \in 1..Len(quizFetches) :
          /\ \E o \in QuizFetchOutcomes(quizFetches[i]) :
                /\ quizData' = handleGenerateQuizSettled(o, quizData, quizError).quizData
                /\ quizError' = handleGenerateQuizSettled(o, quizData, quizError).error
          /\ quizFetches' = RemoveAt(quizFetches, i)
    /\ isLoading' = FALSE
    /\ UNCHANGED <<topic, difficulty, randomTopicLoading, topicFetches>>
    /\ UNCHANGED <<handlerVars, chatVars>>

\* The user clicks an option of a displayed question.
OptionClick ==
    /\ QuizDisplayed
    /\ \E i \in 1..Len(quizData.a) :
          /\ GetProp(quizData.a[i], kOptions).t = "arr"
          /\ \E j \in 1..Len(GetProp(quizData.a[i], kOptions).a) :
                quizData' = handleOptionSelect(quizData, i, GetProp(quizData.a[i], kOptions).a[j])
    /\ UNCHANGED <<topic, difficulty, isLoading, quizError, randomTopicLoading, quizFetches,
                   topicFetches>>
    /\ UNCHANGED <<handlerVars, chatVars>>

\* The user clicks the Check Answer button of a displayed question.
CheckClick ==
    /\ QuizDisplayed
    /\ \E i \in 1..Len(quizData.a) :
          /\ CheckOffered(i)
          /\ quizData' = handleCheckAnswer(quizData, i)
    /\ UNCHANGED <<topic, difficulty, isLoading, quizError, randomTopicLoading, quizFetches,
                   topicFetches>>
    /\ UNCHANGED <<handlerVars, chatVars>>

\* A variant of RandomTopicClick that shows the fetch with the isLoading of
\* the quiz form.
RandomTopicClickSharedFlag ==
    /\ ~randomTopicLoading
    /\ Len(topicFetches) < MaxInFlight
    /\ isLoading' = TRUE
    /\ topicFetches' =
           Append(topicFetches, Stringify(JObj(<<[k |-> kDifficulty, v |-> JStr(difficulty)]>>)))
    /\ UNCHANGED <<topic, difficulty, quizData, randomTopicLoading, quizError, quizFetches>>
    /\ UNCHANGED <<handlerVars, chatVars>>

\* The user clicks the random topic button, which is displayed while
\* randomTopicLoading is false: the onClick up to its awaited fetch.
RandomTopicClick ==
    /\ ~randomTopicLoading
    /\ Len(topicFetches) < MaxInFlight
    /\ randomTopicLoading' = TRUE
    /\ topicFetches' =
           Append(topicFetches, Stringify(JObj(<<[k |-> kDifficulty, v |-> JStr(difficulty)]>>)))
    /\ UNCHANGED <<topic, difficulty, quizData, isLoading, quizError, quizFetches>>
    /\ UNCHANGED <<handlerVars, chatVars>>

\* A get-random-topic fetch settles: handleGetRandomTopic and the onClick
\* from there to their end.
RandomTopicFetchSettles ==
    /\ Len(topicFetches) > 0
    /\ \E i \in 1..Len(topicFetches) :
          /\ \E o \in TopicFetchOutcomes(topicFetches[i]) :
                topic' = handleGetRandomTopicSettled(o)
          /\ topicFetches' = RemoveAt(topicFetches, i)
    /\ randomTopicLoading' = FALSE
    /\ UNCHANGED <<difficulty, quizData, isLoading, quizError, quizFetches>>
    /\ UNCHANGED <<handlerVars, chatVars>>

HomeNext ==
    \/ SetTopic
    \/ SetDifficulty
    \/ handleGenerateQuiz
    \/ GenerateQuizFetchSettles
    \/ OptionClick
    \/ CheckClick
    \/ RandomTopicClick
    \/ RandomTopicFetchSettles

HomeSpec == Init /\ [][HomeNext]_vars

(***************************************************************************)
(* C15.  Within one quiz (quizData goes through null between two quizzes)  *)
(* a question that is checked stays checked and keeps its selectedAnswer,  *)
(* whatever option and check clicks follow; so an option click changes     *)
(* selectedAnswer only while isChecked is false.                           *)
(***************************************************************************)
C15_CheckedIsFinal ==
    [][(Truthy(quizData) /\ Truthy(quizData')) =>
          /\ Len(quizData'.a) = Len(quizData.a)
          /\ \A i \in 1..Len(quizData.a) :
                Truthy(GetProp(quizData.a[i], kIsChecked)) =>
                    /\ GetProp(quizData'.a[i], kIsChecked) = JBool(TRUE)
                    /\ GetProp(quizData'.a[i], kSelectedAnswer)
                           = GetProp(quizData.a[i], kSelectedAnswer)]_vars

\* A question is checked with the answer "a" selected while its other
\* options are still displayed to click, and another question of the quiz
\* has had the answer "b" selected since the quiz arrived.
C15_Witness ==
    /\ QuizDisplayed
    /\ Len(quizData.a) = 2
    /\ GetProp(quizData.a[1], kIsChecked) = JBool(TRUE)
    /\ GetProp(quizData.a[1], kSelectedAnswer) = JStr(<<"a">>)
    /\ Len(GetProp(quizData.a[1], kOptions).a) = 4
    /\ GetProp(quizData.a[2], kSelectedAnswer) = JStr(<<"b">>)

(***************************************************************************)
(* C16.  A submit leaves isLoading true and quizData and error null, with  *)
(* the request in flight; a settling request, whatever its outcome, leaves *)
(* isLoading false and exactly one of quizData and error set; and at no    *)
(* time are both set.  An error that is set is a non-empty message.        *)
(***************************************************************************)
C16_SubmitClearsSettleSetsOne ==
    [][/\ Len(quizFetches') > Len(quizFetches) =>
             /\ isLoading'
             /\ quizData' = JNull
             /\ quizError' = JNull
       /\ Len(quizFetches') < Len(quizFetches) =>
             /\ ~isLoading'
             /\ (quizData' # JNull) # (quizError' # JNull)
       /\ ~(quizData' # JNull /\ quizError' # JNull)
       /\ quizError' # JNull => Truthy(quizError')]_vars

\* A request has settled with the handler's error message and no quiz,
\* after the page had been submitted with the topic "rome".
C16_Witness ==
    /\ ~isLoading
    /\ quizFetches = <<>>
    /\ topic = JStr(Rome)
    /\ quizData = JNull
    /\ quizError = JStr(QuizShapeError)

(***************************************************************************)
(* ExplanationChat: the chat of one checked question.                      *)
(***************************************************************************)
\* What the user types into the input.
Drafts == {<<>>, Blank, PaddedHi}

\* Bound: the messages the user sends in one chat.
MaxSends == 2

\* The messages of the user in a transcript.
Sends(msgs) == Cardinality({i \in 1..Len(msgs) : GetProp(msgs[i], kSender) = JStr(kUser)})

\* The replies of the model behind a chat-explanation request of the chat.
ClientChatOutcomes ==
    {TextOutcome(t) : t \in {Hi, <<>>, Fenced(ObjectText(<<Member(kTopic, Quote(Rome))>>))}}
        \cup {ThrowOutcome(e) : e \in ClientGatewayErrors}

\* What the fetch of a chat-explanation request with body b ends in.
ChatFetchOutcomes(b) ==
    {ClientOutcome(r) :
        r \in Served(ChatExplanationBegin(b), ChatExplanationReply, ChatExplanationCatch,
                     ClientChatOutcomes)}
        \cup TransportOutcomes

SendFallback == <<"An unexpected error occurred while sending your message.">>

\* `${v}` for a string.
ToText(v) == IF v.t = "str" THEN v.s ELSE <<"[object Object]">>

\* A variant of GreetingEffect that resets the transcript: no test of
\* messages.length.
GreetingEffectReset(msgs) == <<GreetingMessage>>

\* A variant of GreetingEffect that adds no greeting.
GreetingEffectSkipped(msgs) == msgs

\* The effect on [question]: the messages it leaves.
GreetingEffect(msgs) == IF Len(msgs) = 0 THEN <<GreetingMessage>> ELSE msgs

\* A variant of historyForAPI: the messages before the new one.
historyBeforeSend(msgs, newUserMessage) == msgs

\* const historyForAPI = [...messages, newUserMessage]
historyForAPI(msgs, newUserMessage) == Append(msgs, newUserMessage)

\* The body of the request handleSendMessage sends.
ChatRequestBody(q, userMessageText, msgs) ==
    Stringify(JObj(<<[k |-> kQuestion, v |-> q],
                     [k |-> kUserMessage, v |-> JStr(userMessageText)],
                     [k |-> kChatHistory,
                      v |-> JArr(historyForAPI(msgs, Message(kUser, JStr(userMessageText))))]>>))

\* The catch block of handleSendMessage: the chatError it sets and the
\* messages it appends.
ChatCatch(e) ==
    IF IsError(e)
    THEN [chatError |-> Or(e.message, JStr(SendFallback)),
          appended |->
              <<Message(kAi, JStr(<<"Sorry, an unexpected error occurred: ">>
                                      \o ToText(Or(e.message, JStr(SendFallback)))))>>]
    ELSE [chatError |-> JStr(SendFallback),
          appended |-> <<Message(kAi, JStr(<<"Sorry, an unexpected error occurred.">>))>>]

\* A variant of handleSendMessageSettled that shows a failure in the error
\* banner alone.
handleSendMessageSettledBannerOnly(o, error0) ==
    IF o.kind = "rejected" THEN [ChatCatch(o.error) EXCEPT !.appended = <<>>]
    ELSE IF Nullish(o.data)
    THEN [ChatCatch(TypeErrorValue(MsgNullProperty)) EXCEPT !.appended = <<>>]
    ELSE IF ~IsOk(o.status)
    THEN [chatError |-> Or(GetProp(o.data, kError), JStr(StatusLine(o.status))),
          appended |-> <<>>]
    ELSE [chatError |-> error0, appended |-> <<Message(kAi, GetProp(o.data, kAiMessage))>>]

\* handleSendMessage from the settled fetch on: the chatError it leaves,
\* given the one it found, and the messages it appends.  Reading a property
\* of a null body throws into the catch block.
handleSendMessageSettled(o, error0) ==
    IF o.kind = "rejected" THEN ChatCatch(o.error)
    ELSE IF Nullish(o.data) THEN ChatCatch(TypeErrorValue(MsgNullProperty))
    ELSE IF ~IsOk(o.status)
    THEN [chatError |-> Or(GetProp(o.data, kError), JStr(StatusLine(o.status))),
          appended |->
              <<Message(kAi, JStr(<<"Sorry, I encountered an error: ">>
                                      \o ToText(Or(GetProp(o.data, kError),
                                                   JStr(StatusLine(o.status))))))>>]
    ELSE [chatError |-> error0, appended |-> <<Message(kAi, GetProp(o.data, kAiMessage))>>]

\* A variant of SendDisabled: the form is never disabled.
SendNeverDisabled == FALSE

\* disabled={isLoading || currentMessage.trim() === ""} of the send button;
\* the input, the only field of the form, is disabled while isLoading.
SendDisabled == chatIsLoading \/ Trim(currentMessage) = <<>>

\* The first render of the component and its effects.
FirstRender ==
    /\ ~rendered
    /\ rendered' = TRUE
    /\ messages' = GreetingEffect(messages)
    /\ UNCHANGED <<question, currentMessage, chatIsLoading, chatError, chatFetches, chatOutcome>>
    /\ UNCHANGED <<handlerVars, homeVars>>

\* The parent renders the chat with another question reference; the effect
\* on [question] runs again.
QuestionChange ==
    /\ rendered
    /\ \E q \in ChatQuestions :
          /\ q.ref # question.ref
          /\ question' = q
    /\ messages' = GreetingEffect(messages)
    /\ UNCHANGED <<rendered, currentMessage, chatIsLoading, chatError, chatFetches, chatOutcome>>
    /\ UNCHANGED <<handlerVars, homeVars>>

\* The user types into the input, which is disabled while isLoading.
SetCurrentMessage ==
    /\ rendered
    /\ ~chatIsLoading
    /\ \E d \in Drafts : currentMessage' = d
    /\ UNCHANGED <<rendered, question, messages, chatIsLoading, chatError, chatFetches,
                   chatOutcome>>
    /\ UNCHANGED <<handlerVars, homeVars>>

\* The form is submitted: handleSendMessage up to its awaited fetch, or to
\* its return for a blank message.
handleSendMessage ==
    /\ rendered
    /\ ~SendDisabled
    /\ Len(chatFetches) < MaxInFlight
    /\ Sends(messages) < MaxSends
    /\ IF Trim(currentMessage) = <<>>
       THEN UNCHANGED <<messages, currentMessage, chatIsLoading, chatError, chatFetches>>
       ELSE /\ messages' = Append(messages, Message(kUser, JStr(Trim(currentMessage))))
            /\ currentMessage' = <<>>
            /\ chatIsLoading' = TRUE
            /\ chatError' = JNull
            /\ chatFetches' =
                   Append(chatFetches,
                          ChatRequestBody(question.v, Trim(currentMessage), messages))
    /\ UNCHANGED <<rendered, question, chatOutcome>>
    /\ UNCHANGED <<handlerVars, homeVars>>

\* A chat-explanation fetch settles: handleSendMessage from there to its
\* end.
SendMessageFetchSettles ==
    /\ Len(chatFetches) > 0
    /\ \E i \in 1..Len(chatFetches) :
          /\ \E o \in ChatFetchOutcomes(chatFetches[i]) :
                /\ chatOutcome' = o
                /\ chatError' = handleSendMessageSettled(o, chatError).chatError
                /\ messages' = messages \o handleSendMessageSettled(o, chatError).appended
          /\ chatFetches' = RemoveAt(chatFetches, i)
    /\ chatIsLoading' = FALSE
    /\ UNCHANGED <<rendered, question, currentMessage>>
    /\ UNCHANGED <<handlerVars, homeVars>>

ChatNext ==
    \/ FirstRender
    \/ QuestionChange
    \/ SetCurrentMessage
    \/ handleSendMessage
    \/ SendMessageFetchSettles

ChatSpec == Init /\ [][ChatNext]_vars

(***************************************************************************)
(* C17.  Whenever the question reference of a rendered chat changes, the   *)
(* transcript is the greeting alone afterwards.                            *)
(***************************************************************************)
C17_QuestionChangeResets ==
    [][(rendered /\ question'.ref # question.ref) => messages' = <<GreetingMessage>>]_vars

SendFailed(o) == o.kind = "rejected" \/ ~IsOk(o.status) \/ Nullish(o.data)

Apologies ==
    {"Sorry, I encountered an error: ", "Sorry, an unexpected error occurred: ",
     "Sorry, an unexpected error occurred."}

C19_FailedSendReported ==
    [][(Len(chatFetches') < Len(chatFetches) /\ SendFailed(chatOutcome')) =>
          /\ Len(messages') = Len(messages) + 1
          /\ SubSeq(messages', 1, Len(messages)) = messages
          /\ GetProp(messages[Len(messages)], kSender) = JStr(kUser)
          /\ GetProp(messages'[Len(messages')], kSender) = JStr(kAi)
          /\ chatError'.t = "str"
          /\ Truthy(chatError')
          /\ LET text == GetProp(messages'[Len(messages')], kText).s IN
               /\ text[1] \in Apologies
               /\ \/ text = <<text[1]>> \o chatError'.s
                  \/ /\ text = <<"Sorry, an unexpected error occurred.">>
                     /\ chatError' = JStr(SendFallback)
                     /\ ~IsError(chatOutcome'.error)
          /\ ~chatIsLoading']_vars

\* A send has been answered with the handler's content-restriction error:
\* the transcript ends with the user message and the apology, and the
\* banner holds the handler's message.
C19_Witness ==
    /\ chatOutcome.kind = "fetched"
    /\ chatOutcome.status = 400
    /\ Len(messages) = 3
    /\ messages[2] = Message(kUser, JStr(Hi))
    /\ chatError = JStr(ContentRestricted \o <<" Blocked due to: ", "HARM_CATEGORY_HARASSMENT", ".">>)
    /\ messages[3] = Message(kAi, JStr(<<"Sorry, I encountered an error: ">> \o chatError.s))
    /\ ~chatIsLoading

(***************************************************************************)
(* The two client components together.  Home and an ExplanationChat share  *)
(* no state, and neither reads the other's: the steps of each are taken    *)
(* with the other at rest in its initial state.                            *)
(***************************************************************************)
ClientNext ==
    \/ ChatInit /\ SetTopic
    \/ ChatInit /\ SetDifficulty
    \/ ChatInit /\ handleGenerateQuiz
    \/ ChatInit /\ GenerateQuizFetchSettles
    \/ ChatInit /\ OptionClick
    \/ ChatInit /\ CheckClick
    \/ ChatInit /\ RandomTopicClick
    \/ ChatInit /\ RandomTopicFetchSettles
    \/ HomeInit /\ FirstRender
    \/ HomeInit /\ QuestionChange
    \/ HomeInit /\ SetCurrentMessage
    \/ HomeInit /\ handleSendMessage
    \/ HomeInit /\ SendMessageFetchSettles

ClientSpec == Init /\ [][ClientNext]_vars

(***************************************************************************)
(* C20.  At most one generate-quiz request of Home is in flight, and one   *)
(* is in flight exactly while isLoading is true; likewise at most one chat *)
(* request of an ExplanationChat is in flight, exactly while its isLoading *)
(* is true.                                                                *)
(***************************************************************************)
C20_OneRequestInFlight ==
    /\ Len(quizFetches) <= 1
    /\ isLoading <=> Len(quizFetches) = 1
    /\ Len(chatFetches) <= 1
    /\ chatIsLoading <=> Len(chatFetches) = 1

\* A chat request is in flight: isLoading is true, the user message is in
\* the transcript and the form cannot be submitted.
C20_Witness ==
    /\ Len(chatFetches) = 1
    /\ chatIsLoading
    /\ SendDisabled
    /\ Len(messages) = 2
    /\ ~isLoading

(***************************************************************************)
(* C21.  A step that starts or finishes a random-topic fetch leaves        *)
(* isLoading, quizData, error and the quiz requests in flight unchanged,   *)
(* and randomTopicLoading is true after a start and false after every      *)
(* finish; a step that starts or finishes a quiz generation leaves         *)
(* randomTopicLoading, topic and the random-topic request in flight        *)
(* unchanged.                                                              *)
(***************************************************************************)
C21_RandomTopicDecoupled ==
    [][/\ Len(topicFetches') # Len(topicFetches) =>
             /\ UNCHANGED <<isLoading, quizData, quizError, quizFetches, difficulty>>
             /\ randomTopicLoading' = (Len(topicFetches') > Len(topicFetches))
       /\ Len(quizFetches') # Len(quizFetches) =>
             UNCHANGED <<randomTopicLoading, topic, topicFetches, difficulty>>]_vars

\* The two requests are in flight at the same time, each with its own flag.
C21_Witness ==
    /\ Len(topicFetches) = 1
    /\ Len(quizFetches) = 1
    /\ randomTopicLoading
    /\ isLoading

(***************************************************************************)
(* C22.  In every state after the first render the transcript starts with  *)
(* the fixed AI greeting, and a step that leaves the question reference    *)
(* unchanged leaves the messages the transcript held in place, unchanged   *)
(* and in their order: it can only add messages at the end.                *)
(***************************************************************************)
C22_GreetingFirstAppendOnly ==
    [][rendered' =>
          /\ Len(messages') >= 1
          /\ messages'[1] = GreetingMessage
          /\ (rendered /\ question'.ref = question.ref) =>
                /\ Len(messages') >= Len(messages)
                /\ SubSeq(messages', 1, Len(messages)) = messages]_vars

\* After a failed send and a successful one the transcript holds the
\* greeting, the first user message, the apology, the second user message
\* and the reply.
C22_Witness ==
    /\ rendered
    /\ Len(messages) = 5
    /\ messages[1] = GreetingMessage
    /\ messages[2] = Message(kUser, JStr(Hi))
    /\ messages[3] = Message(kAi, JStr(<<"Sorry, an unexpected error occurred: ">> \o MsgFailedToFetch))
    /\ messages[4] = Message(kUser, JStr(Hi))
    /\ chatOutcome.kind = "fetched"
    /\ IsOk(chatOutcome.status)
    /\ messages[5] = Message(kAi, GetProp(chatOutcome.data, kAiMessage))

(***************************************************************************)
(* C23.  In every state of Home, every question of quizData whose          *)
(* isChecked is true has a selectedAnswer that is set (a non-empty         *)
(* string).                                                                *)
(***************************************************************************)
C23_CheckedImpliesSelected ==
    Truthy(quizData) =>
        \A i \in 1..Len(quizData.a) :
            Truthy(GetProp(quizData.a[i], kIsChecked)) =>
                /\ GetProp(quizData.a[i], kSelectedAnswer).t = "str"
                /\ GetProp(quizData.a[i], kSelectedAnswer).s # <<>>

\* The question of a reply that carried isChecked: true, loaded unchecked,
\* then selected and checked.
C23_Witness ==
    /\ QuizDisplayed
    /\ Len(quizData.a) = 1
    /\ quizData.a[1].m[5].k = kIsChecked
    /\ GetProp(quizData.a[1], kIsChecked) = JBool(TRUE)
    /\ GetProp(quizData.a[1], kSelectedAnswer) = JStr(<<"b">>)

(***************************************************************************)
(* C24.  For the quizData of every state of Home, every position (those    *)
(* before and after the quiz included) and every option: the quizData that *)
(* handleOptionSelect and handleCheckAnswer set has the same number of     *)
(* questions, every question at another position unchanged, and at the     *)
(* position itself the same questionText, options, correctAnswer and       *)
(* explanation, with isChecked unchanged by a select and selectedAnswer     *)
(* unchanged by a check; with a position outside the quiz, or with no quiz *)
(* or an empty one, it equals the quizData before.                         *)
(***************************************************************************)
\* The properties of a question that a change of the property key leaves
\* alone.
KeptKeys(key) ==
    {kQuestionText, kOptions, kCorrectAnswer, kExplanation, kSelectedAnswer, kIsChecked} \ {key}

\* updated differs from data at most in the property key of the question at
\* position questionIndex.
OnlyChanges(data, updated, questionIndex, key) ==
    IF ~Truthy(data) \/ questionIndex \notin 1..Len(data.a)
    THEN updated = data
    ELSE /\ Len(updated.a) = Len(data.a)
         /\ \A j \in 1..Len(data.a) :
               IF j = questionIndex
               THEN \A k \in KeptKeys(key) : GetProp(updated.a[j], k) = GetProp(data.a[j], k)
               ELSE updated.a[j] = data.a[j]

\* The options a select is tried with.
SelectableOptions == {JStr(<<"a">>), JStr(<<"z">>), JStr(<<>>)}

C24_OtherQuestionsUntouched ==
    \A questionIndex \in 0..(MaxQuizLength + 1) :
        /\ OnlyChanges(quizData, handleCheckAnswer(quizData, questionIndex), questionIndex,
                       kIsChecked)
        /\ \A selectedOption \in SelectableOptions :
              OnlyChanges(quizData, handleOptionSelect(quizData, questionIndex, selectedOption),
                          questionIndex, kSelectedAnswer)

\* The first of two questions has been selected and checked, and the second
\* is as it was loaded.
C24_Witness ==
    /\ QuizDisplayed
    /\ Len(quizData.a) = 2
    /\ GetProp(quizData.a[1], kIsChecked) = JBool(TRUE)
    /\ GetProp(quizData.a[1], kSelectedAnswer) = JStr(<<"b">>)
    /\ quizData.a[2] = WithState(JSONParse(TwoOptionQuestion).v)

(***************************************************************************)
(* C25.  A step that finishes a random-topic fetch leaves topic a string:  *)
(* the string it was before the step, or the topic string of a success     *)
(* response the fetch can end in.                                          *)
(***************************************************************************)
\* The fetch outcome o is a success response with a topic.
TopicFetched(o) ==
    /\ o.kind = "fetched"
    /\ IsOk(o.status)
    /\ ~Nullish(o.data)
    /\ GetProp(o.data, kTopic).t = "str"

C25_FailedFetchKeepsTopic ==
    [][Len(topicFetches') < Len(topicFetches) =>
          /\ topic'.t = "str"
          /\ \/ topic' = topic
             \/ \E i \in 1..Len(topicFetches) :
                   \E o \in TopicFetchOutcomes(topicFetches[i]) :
                       TopicFetched(o) /\ topic' = GetProp(o.data, kTopic)]_vars
====
